---- MODULE Spec2Model ----
(***************************************************************************)
(* Model of the reconciliation core of asset-manager (package              *)
(* core/reconcile): the index cache, the reconcile engine and the          *)
(* plan/apply pipeline, driven by the test adapter of the package          *)
(* (mockAdapter / mockMutator / mockBatchMutator).                         *)
(*                                                                         *)
(* Strings that act as entity keys are tuples of character codes, so that  *)
(* Go's lexicographic string order is computed and not assumed.            *)
(***************************************************************************)
EXTENDS Naturals, Integers, Sequences, FiniteSets, TLC

(***************************************************************************)
(* Bounds of the model.                                                    *)
(***************************************************************************)
NumKeys == 2

NumCallers == 2

MaxTime == 3

(* The entity keys the three sources draw from: "2", "10", "1", "3". *)
KeyPool == << <<2>>, <<1, 0>>, <<1>>, <<3>> >>

Keys == {KeyPool[i] : i \in 1..NumKeys}

(* spec.CacheTTL when caching is enabled, in clock ticks. *)
CacheTTL == 2

Callers == 1..NumCallers

VARIABLES
    dbIndex,      \* mockAdapter.dbIndex: key -> DBItem
    gdIndex,      \* mockAdapter.gdIndex: key -> GDItem
    storageSet,   \* mockAdapter.storageSet: set of keys
    mismatches,   \* mockAdapter.mismatches: key -> mismatch list
    initial,      \* the three sources as they were before any operation
    ttl,          \* spec.CacheTTL
    now,          \* the clock read by time.Now / time.Since
    caches,       \* globalCacheStore.caches: cache key -> *ReconcileCache
    builds,       \* number of BuildCache runs started
    buildErrs,    \* number of BuildCache runs that returned an error
    loads,        \* number of calls of each adapter load method
    failedLoads,  \* the load methods that returned an error in the last BuildCache run
    pc,           \* position of the sequential pipeline
    opts,         \* ReconcileOptions of the pipeline's call
    results,      \* return value of ReconcileAll
    plan,         \* return value of ReconcileWithPlan
    used,         \* the cache record the last results were built from
    cmpCalls,     \* keys for which CompareFields was invoked by the last operation
    executed,     \* ApplyPlan: number of actions executed
    err,          \* error returned by the last operation
    calls,        \* mutation methods invoked by ApplyPlan, in order
    specAdapter,  \* spec.Adapter of the last ApplyPlan call, as its capabilities
    cpc,          \* concurrent callers: position of each caller
    cop,          \* concurrent callers: the entry point each caller runs
    clocal,       \* concurrent callers: record held by the caller
    cpart,        \* concurrent callers: indices loaded so far by a running BuildCache
    sfCall,       \* singleflight: caller that leads the call in flight, 0 if none
    sfJoined,     \* singleflight: for each waiter, the leader whose call it shares
    sfDone,       \* singleflight: finished calls, leader -> [val, err]
    cret,         \* concurrent callers: what each caller returned
    catalog,      \* FurnitureData.json: [room, wall], two lists of items
    bucket,       \* the object keys of the storage bucket
    table,        \* the furniture table: sprite_id key -> row
    profile,      \* FurnitureAdapter.serverProfile
    classnameToID,\* FurnitureAdapter.classnameToID
    idToClassname,\* FurnitureAdapter.idToClassname
    mappingReady, \* FurnitureAdapter.mappingReady is closed
    fpc,          \* furniture adapter run: position
    buildNo,      \* furniture adapter run: BuildCache runs started on the adapter
    gdLoaded,     \* this build's gamedata index, Nil until LoadGamedataIndex returned
    dbLoaded,     \* this build's DB index, Nil until LoadDBIndex returned
    stPos,        \* LoadStorageSet: "wait", "extract" or "done"
    listed,       \* LoadStorageSet: objects listed and not yet handled
    keyOf,        \* LoadStorageSet: object key -> entity key extracted in this build
    early,        \* objects whose key was extracted before this build's gamedata load
    fcache,       \* the record of the last BuildCache run with the furniture adapter
    fopts,        \* ReconcileOptions of the furniture run
    fplan,        \* the plan of the furniture run
    ferr,         \* error returned by the furniture run's ApplyPlan
    applied,      \* the plan applied before the current build, with its options, Nil if none
    dialect,      \* db.Dialector.Name() of the mutation context's database
    batchConcurrency, \* FurnitureAdapter.batchConcurrency
    mcall,        \* the Mutator method called directly on the adapter, with its arguments
    actionsCh,    \* SyncDBBatch: indices of the actions still in the channel
    running,      \* SyncDBBatch: indices of the actions a worker is syncing
    exited,       \* SyncDBBatch: number of workers that have returned
    errorCh,      \* SyncDBBatch: indices of the actions whose sync returned an error
    flags,        \* reconcile furniture: --purge, --sync, --dry-run, --yes
    schema,       \* VARCHAR size of the name columns of each furniture table
    ddl,          \* schema statements executed on the database
    handle,       \* the db argument of a reconcile call: "nil" or "open"
    query,        \* ReconcileOne: the query
    outcome,      \* what the reconcile call returned, or that it panicked
    gor,          \* goroutines on one adapter: position, locals and result of each
    mu,           \* FurnitureAdapter.mu: the goroutines holding it
    closes,       \* close(a.mappingReady) calls executed
    ctxDone,      \* the context of the calls is cancelled
    timers,       \* goroutines whose time.After channel has fired
    invalidated   \* InvalidateCache: whether it has run, the builds begun before it
                  \* and the callers that called after it

worldVars == <<dbIndex, gdIndex, storageSet, mismatches, initial>>

cacheVars == <<ttl, now, caches, builds, buildErrs, loads, failedLoads>>

pipeVars == <<pc, opts, results, plan, used, cmpCalls, executed, err, calls, specAdapter>>

callerVars == <<cpc, cop, clocal, cpart, sfCall, sfJoined, sfDone, cret>>

furnVars == <<catalog, bucket, table, profile, classnameToID, idToClassname, mappingReady,
              fpc, buildNo, gdLoaded, dbLoaded, stPos, listed, keyOf, early,
              fcache, fopts, fplan, ferr, applied>>

mutVars == <<dialect, batchConcurrency, mcall, actionsCh, running, exited, errorCh>>

entryVars == <<flags, schema, ddl, handle, query, outcome>>

goVars == <<gor, mu, closes, ctxDone, timers>>

vars == <<worldVars, cacheVars, pipeVars, callerVars, furnVars, mutVars, entryVars, goVars,
          invalidated>>

(***************************************************************************)
(* Values.                                                                 *)
(***************************************************************************)
Nil == [nil |-> TRUE]

NoError == "nil"

DBItemOf(k) == [src |-> "db", key |-> k]

GDItemOf(k) == [src |-> "gd", key |-> k]

MismatchList == <<"width: gd=2 db=1">>

Options == [DryRun : BOOLEAN, DoPurge : BOOLEAN, DoSync : BOOLEAN, Confirmed : BOOLEAN]

ActionDeleteDB == "delete_db"

ActionDeleteGamedata == "delete_gamedata"

ActionDeleteStorage == "delete_storage"

ActionSyncDB == "sync_db"

NoPlan == [Results |-> <<>>, Actions |-> <<>>, Summary |-> Nil]

(* Spec.CacheKey for the test adapter: "mock" | "" | "" | "" *)
CacheKey == "mock|||"

LoadNames == {"db", "gd", "storage"}

(* All enumeration orders of a finite set (Go's map iteration order). *)
Orders(S) ==
    {s \in [1..Cardinality(S) -> S] : \A i, j \in 1..Cardinality(S) : i # j => s[i] # s[j]}

(* The sources a test adapter can hold. *)
Worlds ==
    {w \in [db : SUBSET Keys, gd : SUBSET Keys, st : SUBSET Keys, mm : SUBSET Keys] :
        w.mm \subseteq w.db}

(***************************************************************************)
(* Go string comparison a < b.                                             *)
(***************************************************************************)
RECURSIVE StrLess(_, _)
StrLess(a, b) ==
    IF a = <<>> THEN b # <<>>
    ELSE IF b = <<>> THEN FALSE
    ELSE IF Head(a) < Head(b) THEN TRUE
    ELSE IF Head(a) > Head(b) THEN FALSE
    ELSE StrLess(Tail(a), Tail(b))

(***************************************************************************)
(* The test adapter.                                                       *)
(***************************************************************************)
ExtractDBKey(item) == item.key

ResolveName(dbItem, gdItem) ==
    IF dbItem # Nil THEN "db-name"
    ELSE IF gdItem # Nil THEN "gd-name"
    ELSE ""

CompareFields(dbItem, gdItem) ==
    LET key == ExtractDBKey(dbItem)
    IN  IF key \in DOMAIN mismatches THEN mismatches[key] ELSE <<>>

GetMetadata(dbItem, gdItem) == "empty"

(***************************************************************************)
(* cache.go                                                                *)
(***************************************************************************)
(* A record that never expires once a TTL is set. *)
IsExpiredNever(c) == c.TTL = 0

IsExpired(c) ==
    IF c.TTL = 0 THEN TRUE
    ELSE now - c.Built > c.TTL

(* The error BuildCache reports when the loads in `failed` fail. *)
BuildError(failed) ==
    IF "db" \in failed THEN "db error"
    ELSE IF "gd" \in failed THEN "gamedata error"
    ELSE IF "storage" \in failed THEN "storage error"
    ELSE NoError

(* The record BuildCache returns from the three loaded indices. *)
NewCache(db, gd, st, id) ==
    [DBIndex |-> db, GDIndex |-> gd, StorageSet |-> st, Built |-> now, TTL |-> ttl, id |-> id]

(***************************************************************************)
(* engine                                                                  *)
(***************************************************************************)
(* buildUnion that forgets the storage keys. *)
buildUnionNoStorage(db, gd, st) == (DOMAIN db) \cup (DOMAIN gd)

buildUnion(db, gd, st) == (DOMAIN db) \cup (DOMAIN gd) \cup st

(* Comparing whenever the DB row exists. *)
ComparesFieldsDBOnly(dbPresent, gdPresent) == dbPresent

(* The condition under which buildResult invokes CompareFields. *)
ComparesFields(dbPresent, gdPresent) == dbPresent /\ gdPresent

buildResult(key, db, gd, st) ==
    LET dbPresent == key \in DOMAIN db
        gdPresent == key \in DOMAIN gd
        storagePresent == key \in st
        dbItem == IF dbPresent THEN db[key] ELSE Nil
        gdItem == IF gdPresent THEN gd[key] ELSE Nil
    IN  [ID |-> key,
         Name |-> IF dbPresent \/ gdPresent THEN ResolveName(dbItem, gdItem) ELSE "",
         Metadata |-> IF dbPresent \/ gdPresent THEN GetMetadata(dbItem, gdItem) ELSE "nil",
         DBPresent |-> dbPresent,
         GamedataPresent |-> gdPresent,
         StoragePresent |-> storagePresent,
         Mismatch |-> IF ComparesFields(dbPresent, gdPresent)
                      THEN CompareFields(dbItem, gdItem)
                      ELSE <<>>]

(* The keys for which building the results of `cache` invokes CompareFields. *)
ComparedKeys(cache) ==
    {k \in buildUnion(cache.DBIndex, cache.GDIndex, cache.StorageSet) :
        ComparesFields(k \in DOMAIN cache.DBIndex, k \in DOMAIN cache.GDIndex)}

(* The loop over the union, visiting the keys in the order `order`. *)
reconcileFromCache(cache, order) ==
    [i \in 1..Len(order) |->
        buildResult(order[i], cache.DBIndex, cache.GDIndex, cache.StorageSet)]

(* sort.Slice(results, ID <): insertion of r into a sorted list. *)
RECURSIVE InsertByID(_, _)
InsertByID(r, sorted) ==
    IF sorted = <<>> THEN <<r>>
    ELSE IF StrLess(r.ID, Head(sorted).ID) THEN <<r>> \o sorted
    ELSE <<Head(sorted)>> \o InsertByID(r, Tail(sorted))

(* Returning the results in map iteration order. *)
Unsorted(rs) == rs

RECURSIVE SortByID(_)
SortByID(rs) ==
    IF rs = <<>> THEN <<>>
    ELSE InsertByID(Head(rs), SortByID(Tail(rs)))

(***************************************************************************)
(* plan.go: buildPlanFromResults                                           *)
(***************************************************************************)
getMissingReason(result) ==
    LET missing ==
            (IF ~result.GamedataPresent THEN <<"gamedata">> ELSE <<>>)
            \o (IF ~result.StoragePresent THEN <<"storage">> ELSE <<>>)
            \o (IF ~result.DBPresent THEN <<"database">> ELSE <<>>)
    IN  IF Len(missing) = 0 THEN <<"complete">> ELSE <<"missing in">> \o missing

(* AND semantics: only items known to both DB and gamedata count. *)
CountsMissingStorageAnd(result) ==
    (result.DBPresent /\ result.GamedataPresent) /\ ~result.StoragePresent

CountsMissingStorage(result) ==
    (result.DBPresent \/ result.GamedataPresent) /\ ~result.StoragePresent

CountsMissingGamedata(result) ==
    (result.DBPresent \/ result.StoragePresent) /\ ~result.GamedataPresent

CountsMissingDB(result) ==
    (result.GamedataPresent \/ result.StoragePresent) /\ ~result.DBPresent

CountsMismatch(result) == Len(result.Mismatch) > 0

(* A purge test that forgets the database. *)
MissingInAnyNoDB(result) ==
    ~result.GamedataPresent \/ ~result.StoragePresent

MissingInAny(result) ==
    ~result.GamedataPresent \/ ~result.StoragePresent \/ ~result.DBPresent

(* Purging without looking at opts.DoPurge. *)
PurgesAlways(result, o) == MissingInAny(result)

(* The branch "if opts.DoPurge { if missingInAny { ...; continue } }". *)
Purges(result, o) == o.DoPurge /\ MissingInAny(result)

(* The delete actions appended for a purged result, in the order of the code. *)
PurgeActionsFor(result) ==
    (IF result.DBPresent
     THEN <<[Type |-> ActionDeleteDB, Key |-> result.ID,
             Reason |-> getMissingReason(result), GDItem |-> Nil]>>
     ELSE <<>>)
    \o (IF result.GamedataPresent
        THEN <<[Type |-> ActionDeleteGamedata, Key |-> result.ID,
                Reason |-> getMissingReason(result), GDItem |-> Nil]>>
        ELSE <<>>)
    \o (IF result.StoragePresent
        THEN <<[Type |-> ActionDeleteStorage, Key |-> result.ID,
                Reason |-> getMissingReason(result), GDItem |-> Nil]>>
        ELSE <<>>)

(* Syncing every item present in DB and gamedata, mismatched or not. *)
SyncsWithoutMismatch(result, o) ==
    o.DoSync /\ result.DBPresent /\ result.GamedataPresent

(* The branch "if opts.DoSync && len(result.Mismatch) > 0 { if DB && GD". *)
Syncs(result, o) ==
    o.DoSync /\ Len(result.Mismatch) > 0 /\ result.DBPresent /\ result.GamedataPresent

SyncActionsFor(result, cache) ==
    <<[Type |-> ActionSyncDB, Key |-> result.ID,
       Reason |-> <<"mismatch">> \o result.Mismatch,
       GDItem |-> cache.GDIndex[result.ID]]>>

(* The loop body without the "continue" after the purge actions. *)
ActionsForNoContinue(result, cache, o) ==
    (IF Purges(result, o) THEN PurgeActionsFor(result) ELSE <<>>)
    \o (IF Syncs(result, o) THEN SyncActionsFor(result, cache) ELSE <<>>)

(* One iteration of the loop of buildPlanFromResults: the actions appended. *)
ActionsFor(result, cache, o) ==
    IF Purges(result, o) THEN PurgeActionsFor(result)
    ELSE IF Syncs(result, o) THEN SyncActionsFor(result, cache)
    ELSE <<>>

RECURSIVE PlanActions(_, _, _)
PlanActions(rs, cache, o) ==
    IF rs = <<>> THEN <<>>
    ELSE ActionsFor(Head(rs), cache, o) \o PlanActions(Tail(rs), cache, o)

(* Counting one purge per purged item instead of one per action. *)
PurgedItems(rs, o) == Cardinality({i \in 1..Len(rs) : Purges(rs[i], o)})

(* summary.PurgeActions++ and summary.SyncActions++ over the loop. *)
RECURSIVE PurgeCount(_, _)
PurgeCount(rs, o) ==
    IF rs = <<>> THEN 0
    ELSE (IF Purges(Head(rs), o) THEN Len(PurgeActionsFor(Head(rs))) ELSE 0)
         + PurgeCount(Tail(rs), o)

RECURSIVE SyncCount(_, _)
SyncCount(rs, o) ==
    IF rs = <<>> THEN 0
    ELSE (IF ~Purges(Head(rs), o) /\ Syncs(Head(rs), o) THEN 1 ELSE 0)
         + SyncCount(Tail(rs), o)

buildPlanFromResults(rs, cache, o) ==
    [Summary |->
        [TotalItems |-> Len(rs),
         MissingStorage |-> Cardinality({i \in 1..Len(rs) : CountsMissingStorage(rs[i])}),
         MissingGamedata |-> Cardinality({i \in 1..Len(rs) : CountsMissingGamedata(rs[i])}),
         MissingDB |-> Cardinality({i \in 1..Len(rs) : CountsMissingDB(rs[i])}),
         Mismatches |-> Cardinality({i \in 1..Len(rs) : CountsMismatch(rs[i])}),
         PurgeActions |-> PurgeCount(rs, o),
         SyncActions |-> SyncCount(rs, o)],
     Actions |-> PlanActions(rs, cache, o)]

(***************************************************************************)
(* The adapters of the package and what each offers to ApplyPlan's probes: *)
(* mockAdapter (no Mutator), mockMutator (single-key methods only),        *)
(* mockBatchMutator (batch deletes, no SyncDBBatch) and the furniture      *)
(* adapter (every batch method).                                           *)
(***************************************************************************)
Adapters ==
    {[Mutator |-> FALSE, DBBatch |-> FALSE, GDBatch |-> FALSE, StorageBatch |-> FALSE, SyncBatch |-> FALSE],
     [Mutator |-> TRUE, DBBatch |-> FALSE, GDBatch |-> FALSE, StorageBatch |-> FALSE, SyncBatch |-> FALSE],
     [Mutator |-> TRUE, DBBatch |-> TRUE, GDBatch |-> TRUE, StorageBatch |-> TRUE, SyncBatch |-> FALSE],
     [Mutator |-> TRUE, DBBatch |-> TRUE, GDBatch |-> TRUE, StorageBatch |-> TRUE, SyncBatch |-> TRUE]}

Restrict(f, S) == [k \in (DOMAIN f) \cap S |-> f[k]]

(* The sources as one value: w.db, w.gd, w.st, w.mm. *)
World == [db |-> dbIndex, gd |-> gdIndex, st |-> storageSet, mm |-> mismatches]

(***************************************************************************)
(* The Mutator contract: what a successful mutation does to the sources.   *)
(***************************************************************************)
Mutate(kind, key, w) ==
    IF kind = ActionDeleteDB THEN [w EXCEPT !.db = Restrict(@, (DOMAIN @) \ {key})]
    ELSE IF kind = ActionDeleteGamedata THEN [w EXCEPT !.gd = Restrict(@, (DOMAIN @) \ {key})]
    ELSE IF kind = ActionDeleteStorage THEN [w EXCEPT !.st = @ \ {key}]
    ELSE [w EXCEPT !.mm = Restrict(@, (DOMAIN @) \ {key})]

RECURSIVE MutateAll(_, _, _)
MutateAll(kind, keys, w) ==
    IF keys = <<>> THEN w
    ELSE MutateAll(kind, Tail(keys), Mutate(kind, Head(keys), w))

SingleMethod(kind) ==
    IF kind = ActionDeleteDB THEN "DeleteDB"
    ELSE IF kind = ActionDeleteGamedata THEN "DeleteGamedata"
    ELSE IF kind = ActionDeleteStorage THEN "DeleteStorage"
    ELSE "SyncDBFromGamedata"

BatchMethod(kind) ==
    IF kind = ActionDeleteDB THEN "DeleteDBBatch"
    ELSE IF kind = ActionDeleteGamedata THEN "DeleteGamedataBatch"
    ELSE IF kind = ActionDeleteStorage THEN "DeleteStorageBatch"
    ELSE "SyncDBBatch"

(* An ApplyPlan that never finds a batch method. *)
HasBatchNever(adapter, kind) == FALSE

HasBatch(adapter, kind) ==
    IF kind = ActionDeleteDB THEN adapter.DBBatch
    ELSE IF kind = ActionDeleteGamedata THEN adapter.GDBatch
    ELSE IF kind = ActionDeleteStorage THEN adapter.StorageBatch
    ELSE adapter.SyncBatch

(* A failing batch that works object by object (storage bulk delete, the sync *)
(* worker pool) has carried out the other keys; a failing single statement    *)
(* or single write (DB, gamedata) has carried out none.                       *)
BatchIsPartial(kind) == kind \in {ActionDeleteStorage, ActionSyncDB}

(***************************************************************************)
(* plan.go: ApplyPlan                                                      *)
(***************************************************************************)
(* The safety check with && for ||. *)
GatedBoth(o) == ~o.Confirmed /\ o.DryRun

(* The safety check "if !opts.Confirmed || opts.DryRun { return 0, nil }". *)
Gated(o) == ~o.Confirmed \/ o.DryRun

(* The indices of the plan's actions of one kind, in plan order. *)
RECURSIVE GroupOf(_, _, _)
GroupOf(actions, kind, i) ==
    IF i > Len(actions) THEN <<>>
    ELSE (IF actions[i].Type = kind THEN <<i>> ELSE <<>>) \o GroupOf(actions, kind, i + 1)

KeysAt(actions, ix) == [j \in 1..Len(ix) |-> actions[ix[j]].Key]

(* The fallback loop: one single-key call per action, stopping at the first error. *)
RECURSIVE RunEach(_, _, _, _, _)
RunEach(kind, actions, ix, bad, s) ==
    IF ix = <<>> THEN s
    ELSE LET a == actions[Head(ix)]
             called == [s EXCEPT !.calls = Append(@, [method |-> SingleMethod(kind),
                                                     keys |-> <<a.Key>>,
                                                     items |-> <<a.GDItem>>])]
         IN  IF Head(ix) = bad
             THEN [called EXCEPT !.err = "failed to " \o kind]
             ELSE RunEach(kind, actions, Tail(ix), bad,
                          [called EXCEPT !.executed = @ + 1,
                                         !.w = Mutate(kind, a.Key, @)])

(* The batch call for one kind. *)
RunBatch(kind, actions, ix, bad, s) ==
    LET keys == KeysAt(actions, ix)
        called == [s EXCEPT !.calls = Append(@, [method |-> BatchMethod(kind),
                                                keys |-> keys,
                                                items |-> [j \in 1..Len(ix) |-> actions[ix[j]].GDItem]])]
        fails == \E j \in 1..Len(ix) : ix[j] = bad
        good == KeysAt(actions, SelectSeq(ix, LAMBDA i : i # bad))
    IN  IF fails
        THEN [called EXCEPT !.err = "failed to batch " \o kind,
                            !.w = IF BatchIsPartial(kind) THEN MutateAll(kind, good, @) ELSE @]
        ELSE [called EXCEPT !.executed = @ + Len(ix),
                            !.w = MutateAll(kind, keys, @)]

(* The four blocks without the returns between them. *)
RunGroupOn(kind, adapter, actions, bad, s) ==
    LET ix == GroupOf(actions, kind, 1)
    IN  IF Len(ix) = 0 THEN s
        ELSE IF HasBatch(adapter, kind) THEN RunBatch(kind, actions, ix, bad, s)
        ELSE RunEach(kind, actions, ix, bad, s)

(* One of the four blocks "if len(keys) > 0 { batch or fallback }"; an earlier *)
(* error has already returned.                                                *)
RunGroup(kind, adapter, actions, bad, s) ==
    LET ix == GroupOf(actions, kind, 1)
    IN  IF s.err # NoError \/ Len(ix) = 0 THEN s
        ELSE IF HasBatch(adapter, kind) THEN RunBatch(kind, actions, ix, bad, s)
        ELSE RunEach(kind, actions, ix, bad, s)

(* An ApplyPlan that does not probe the adapter for the Mutator methods. *)
ApplyPlanUnprobed(p, o, adapter, bad, w) ==
    LET s0 == [executed |-> 0, err |-> NoError, calls |-> <<>>, w |-> w]
    IN  IF Gated(o) THEN s0
        ELSE LET s1 == RunGroup(ActionDeleteDB, adapter, p.Actions, bad, s0)
                 s2 == RunGroup(ActionDeleteGamedata, adapter, p.Actions, bad, s1)
                 s3 == RunGroup(ActionDeleteStorage, adapter, p.Actions, bad, s2)
             IN  RunGroup(ActionSyncDB, adapter, p.Actions, bad, s3)

(* ApplyPlan(plan, opts) on adapter `adapter`; the mutation of the action at  *)
(* index `bad` of the plan fails (0: none fails). The value returned holds    *)
(* executed, err, the mutation calls made and the sources afterwards.         *)
ApplyPlan(p, o, adapter, bad, w) ==
    LET s0 == [executed |-> 0, err |-> NoError, calls |-> <<>>, w |-> w]
    IN  IF Gated(o) THEN s0
        ELSE IF ~adapter.Mutator
        THEN [s0 EXCEPT !.err = "adapter does not implement Mutator interface"]
        ELSE LET s1 == RunGroup(ActionDeleteDB, adapter, p.Actions, bad, s0)
                 s2 == RunGroup(ActionDeleteGamedata, adapter, p.Actions, bad, s1)
                 s3 == RunGroup(ActionDeleteStorage, adapter, p.Actions, bad, s2)
             IN  RunGroup(ActionSyncDB, adapter, p.Actions, bad, s3)

(***************************************************************************)
(* The sequential pipeline: one caller that reconciles, or plans and then  *)
(* applies.                                                                *)
(***************************************************************************)
(* BuildCache as one step: the three loads read the sources, those in      *)
(* `failed` return an error.                                               *)
(* A BuildCache that does not look at storageErr. *)
BuildCacheUncheckedStorage(failed, id) ==
    IF failed \ {"storage"} # {}
    THEN [cache |-> Nil, err |-> BuildError(failed)]
    ELSE [cache |-> NewCache(dbIndex, gdIndex, storageSet, id), err |-> NoError]

BuildCache(failed, id) ==
    IF failed # {}
    THEN [cache |-> Nil, err |-> BuildError(failed)]
    ELSE [cache |-> NewCache(dbIndex, gdIndex, storageSet, id), err |-> NoError]

(* GetOrBuildCache with no other caller in flight: the fast path, else     *)
(* build and store. hit tells whether the stored record was returned.      *)
GetOrBuildCache(failed, id) ==
    LET cache == caches[CacheKey]
        exists == cache # Nil
    IN  IF exists /\ ~IsExpired(cache)
        THEN [cache |-> cache, err |-> NoError, hit |-> TRUE]
        ELSE [cache |-> BuildCache(failed, id).cache,
              err |-> BuildError(failed), hit |-> FALSE]

(* No mutation method is called directly. *)
MutationIdle ==
    /\ dialect = "mysql"
    /\ batchConcurrency = 0
    /\ mcall = Nil
    /\ actionsCh = <<>>
    /\ running = {}
    /\ exited = 0
    /\ errorCh = {}

(* No command and no reconcile call with a database handle runs. *)
EntryIdle ==
    /\ flags = [purge |-> FALSE, sync |-> FALSE, dryRun |-> FALSE, yes |-> FALSE]
    /\ schema = <<>>
    /\ ddl = <<>>
    /\ handle = "open"
    /\ query = Nil
    /\ outcome = Nil

(* InvalidateCache has not been called. *)
NotInvalidated == [done |-> FALSE, stale |-> {}, after |-> {}]

(* No goroutine of the concurrent adapter calls runs. *)
GoIdle ==
    /\ gor = <<>>
    /\ mu = {}
    /\ closes = 0
    /\ ctxDone = FALSE
    /\ timers = {}

(* No furniture adapter takes part. *)
FurnitureIdle ==
    /\ catalog = [room |-> <<>>, wall |-> <<>>]
    /\ bucket = {}
    /\ table = <<>>
    /\ profile = "arcturus"
    /\ classnameToID = <<>>
    /\ idToClassname = <<>>
    /\ mappingReady = FALSE
    /\ fpc = "off"
    /\ buildNo = 0
    /\ gdLoaded = Nil
    /\ dbLoaded = Nil
    /\ stPos = "done"
    /\ listed = {}
    /\ keyOf = <<>>
    /\ early = {}
    /\ fcache = Nil
    /\ fopts = [DryRun |-> FALSE, DoPurge |-> FALSE, DoSync |-> FALSE, Confirmed |-> FALSE]
    /\ fplan = NoPlan
    /\ ferr = NoError
    /\ applied = Nil

CallersIdle ==
    /\ cpc = [c \in Callers |-> "off"]
    /\ cop = [c \in Callers |-> "none"]
    /\ clocal = [c \in Callers |-> Nil]
    /\ cpart = [c \in Callers |-> {}]
    /\ sfCall = 0
    /\ sfJoined = [c \in Callers |-> 0]
    /\ sfDone = [c \in Callers |-> Nil]
    /\ cret = [c \in Callers |-> Nil]

InitWorld ==
    \E w \in Worlds :
        /\ dbIndex = [k \in w.db |-> DBItemOf(k)]
        /\ gdIndex = [k \in w.gd |-> GDItemOf(k)]
        /\ storageSet = w.st
        /\ mismatches = [k \in w.mm |-> MismatchList]
        /\ initial = [db |-> dbIndex, gd |-> gdIndex, st |-> storageSet, mm |-> mismatches]

InitCache ==
    /\ ttl \in {0, CacheTTL}
    /\ now = 0
    /\ caches = [k \in {CacheKey} |-> Nil]
    /\ builds = 0
    /\ buildErrs = 0
    /\ loads = [n \in LoadNames |-> 0]
    /\ failedLoads = {}

Init ==
    /\ InitWorld
    /\ InitCache
    /\ pc = "idle"
    /\ opts = [DryRun |-> FALSE, DoPurge |-> FALSE, DoSync |-> FALSE, Confirmed |-> FALSE]
    /\ results = <<>>
    /\ plan = NoPlan
    /\ used = Nil
    /\ cmpCalls = {}
    /\ executed = 0
    /\ err = NoError
    /\ calls = <<>>
    /\ specAdapter = Nil
    /\ MutationIdle
    /\ EntryIdle
    /\ CallersIdle
    /\ GoIdle
    /\ invalidated = NotInvalidated
    /\ FurnitureIdle

ReconcileAll ==
    /\ pc = "idle"
    /\ \E failed \in SUBSET LoadNames :
        LET b == BuildCache(failed, builds + 1)
        IN  /\ builds' = builds + 1
            /\ buildErrs' = IF b.err # NoError THEN buildErrs + 1 ELSE buildErrs
            /\ loads' = [n \in LoadNames |-> loads[n] + 1]
            /\ failedLoads' = failed
            /\ err' = b.err
            /\ used' = b.cache
            /\ IF b.err # NoError
               THEN /\ results' = <<>>
                    /\ cmpCalls' = {}
                    /\ pc' = "failed"
               ELSE /\ \E order \in Orders(buildUnion(b.cache.DBIndex, b.cache.GDIndex,
                                                       b.cache.StorageSet)) :
                          results' = SortByID(reconcileFromCache(b.cache, order))
                    /\ cmpCalls' = ComparedKeys(b.cache)
                    /\ pc' = "reconciled"
    /\ UNCHANGED <<invalidated, goVars, mutVars, entryVars, furnVars, worldVars, ttl, now, caches, opts, plan, executed, calls, specAdapter, callerVars>>

ReconcileWithPlan ==
    /\ pc = "idle"
    /\ \E o \in Options, failed \in SUBSET LoadNames :
        LET g == GetOrBuildCache(failed, builds + 1)
        IN  /\ opts' = o
            /\ builds' = IF g.hit THEN builds ELSE builds + 1
            /\ buildErrs' = IF g.err # NoError THEN buildErrs + 1 ELSE buildErrs
            /\ loads' = IF g.hit THEN loads ELSE [n \in LoadNames |-> loads[n] + 1]
            /\ failedLoads' = IF g.hit THEN failedLoads ELSE failed
            /\ caches' = IF g.hit \/ g.err # NoError THEN caches
                         ELSE [caches EXCEPT ![CacheKey] = g.cache]
            /\ err' = g.err
            /\ used' = g.cache
            /\ IF g.err # NoError
               THEN /\ plan' = NoPlan
                    /\ cmpCalls' = {}
                    /\ pc' = "failed"
               ELSE /\ \E order \in Orders(buildUnion(g.cache.DBIndex, g.cache.GDIndex,
                                                       g.cache.StorageSet)) :
                          LET rs == reconcileFromCache(g.cache, order)
                              b == buildPlanFromResults(rs, g.cache, o)
                          IN  plan' = [Results |-> rs, Actions |-> b.Actions,
                                       Summary |-> b.Summary]
                    /\ cmpCalls' = ComparedKeys(g.cache)
                    /\ pc' = "planned"
    /\ UNCHANGED <<invalidated, goVars, mutVars, entryVars, furnVars, worldVars, ttl, now, results, executed, calls, specAdapter, callerVars>>

ApplyPlanStep ==
    /\ pc = "planned"
    /\ \E adapter \in Adapters, bad \in 0..Len(plan.Actions) :
        /\ (Gated(opts) \/ ~adapter.Mutator) => bad = 0
        /\ LET r == ApplyPlan(plan, opts, adapter, bad, World)
           IN  /\ executed' = r.executed
               /\ err' = r.err
               /\ calls' = r.calls
               /\ specAdapter' = adapter
               /\ dbIndex' = r.w.db
               /\ gdIndex' = r.w.gd
               /\ storageSet' = r.w.st
               /\ mismatches' = r.w.mm
    /\ pc' = "applied"
    /\ UNCHANGED <<invalidated, goVars, mutVars, entryVars, furnVars, initial, cacheVars, opts, results, plan, used, cmpCalls, callerVars>>

Next ==
    \/ ReconcileAll
    \/ ReconcileWithPlan
    \/ ApplyPlanStep

Spec == Init /\ [][Next]_vars

(***************************************************************************)
(* Properties of the pipeline.                                             *)
(***************************************************************************)
DeleteTypes == {ActionDeleteDB, ActionDeleteGamedata, ActionDeleteStorage}

(* The keys of the indices the last results were built from. *)
UsedDB == DOMAIN used.DBIndex

UsedGD == DOMAIN used.GDIndex

UsedST == used.StorageSet

UsedUnion == UsedDB \cup UsedGD \cup UsedST

CompleteIn(k) == k \in UsedDB /\ k \in UsedGD /\ k \in UsedST

(* Number of actions of the plan with the given type and key. *)
CountActions(type, k) ==
    Cardinality({i \in 1..Len(plan.Actions) :
                    plan.Actions[i].Type = type /\ plan.Actions[i].Key = k})

(* The results the last engine call returned. *)
LastResults == IF pc = "reconciled" THEN results ELSE plan.Results

(* C1: ApplyPlan called with Confirmed=false or DryRun=true returns        *)
(* executed=0 and a nil error, invokes no mutation method (single-key or   *)
(* batch) and leaves database, catalog and storage as they were.           *)
C1_ApplyGated ==
    (pc = "applied" /\ (~opts.Confirmed \/ opts.DryRun)) =>
        /\ executed = 0
        /\ err = NoError
        /\ calls = <<>>
        /\ World = initial

C1_Witness ==
    /\ pc = "applied"
    /\ ~opts.Confirmed \/ opts.DryRun
    /\ Len(plan.Actions) >= 2

(* C2: a plan made with DoPurge=false and DoSync=false has an empty action *)
(* list and zero PurgeActions and SyncActions, whatever DryRun and         *)
(* Confirmed are.                                                          *)
C2_NoFlagsNoActions ==
    (pc = "planned" /\ ~opts.DoPurge /\ ~opts.DoSync) =>
        /\ plan.Actions = <<>>
        /\ plan.Summary.PurgeActions = 0
        /\ plan.Summary.SyncActions = 0

C2_Witness ==
    /\ pc = "planned"
    /\ ~opts.DoPurge /\ ~opts.DoSync /\ opts.Confirmed /\ ~opts.DryRun
    /\ \E i \in 1..Len(plan.Results) : MissingInAny(plan.Results[i])
    /\ \E i \in 1..Len(plan.Results) : Len(plan.Results[i].Mismatch) > 0

(* C3: in a plan made with DoPurge=true no key carries both a sync_db      *)
(* action and a delete action, and a key missing from some store gets no   *)
(* sync_db action even when DB and gamedata hold it with mismatches.       *)
C3_PurgeOverridesSync ==
    (pc = "planned" /\ opts.DoPurge) =>
        /\ \A i, j \in 1..Len(plan.Actions) :
              ~(/\ plan.Actions[i].Type = ActionSyncDB
                /\ plan.Actions[j].Type \in DeleteTypes
                /\ plan.Actions[i].Key = plan.Actions[j].Key)
        /\ \A k \in UsedUnion : ~CompleteIn(k) => CountActions(ActionSyncDB, k) = 0

C3_Witness ==
    /\ pc = "planned"
    /\ opts.DoPurge /\ opts.DoSync
    /\ \E k \in UsedDB \cap UsedGD :
          /\ k \notin UsedST
          /\ k \in DOMAIN mismatches
          /\ CountActions(ActionDeleteDB, k) = 1

(* C4: with DoPurge=true a key absent from at least one store gets exactly *)
(* one delete action for each store that holds it and none for the others; *)
(* a key present in all three stores gets no delete action.                *)
C4_PurgeDeletes ==
    (pc = "planned" /\ opts.DoPurge) =>
        \A k \in UsedUnion :
            IF CompleteIn(k)
            THEN \A t \in DeleteTypes : CountActions(t, k) = 0
            ELSE /\ CountActions(ActionDeleteDB, k) = (IF k \in UsedDB THEN 1 ELSE 0)
                 /\ CountActions(ActionDeleteGamedata, k) = (IF k \in UsedGD THEN 1 ELSE 0)
                 /\ CountActions(ActionDeleteStorage, k) = (IF k \in UsedST THEN 1 ELSE 0)

C4_Witness ==
    /\ pc = "planned"
    /\ opts.DoPurge
    /\ \E k \in UsedUnion : CompleteIn(k)
    /\ \E k \in UsedUnion :
          /\ k \notin UsedDB
          /\ CountActions(ActionDeleteGamedata, k) = 1
          /\ CountActions(ActionDeleteStorage, k) = 1

(* C5: with DoSync=true the plan holds exactly one sync_db action for a    *)
(* key iff the key is in the DB index and the gamedata index, its mismatch *)
(* list is non-empty and it was not purged; the action carries the         *)
(* gamedata item stored under that key in the index the results were built *)
(* from.                                                                   *)
C5_SyncActions ==
    (pc = "planned" /\ opts.DoSync) =>
        /\ \A i \in 1..Len(plan.Results) :
              LET r == plan.Results[i]
                  k == r.ID
                  synced == /\ k \in UsedDB
                            /\ k \in UsedGD
                            /\ r.Mismatch # <<>>
                            /\ ~(opts.DoPurge /\ ~CompleteIn(k))
              IN  CountActions(ActionSyncDB, k) = (IF synced THEN 1 ELSE 0)
        /\ \A i \in 1..Len(plan.Actions) :
              plan.Actions[i].Type = ActionSyncDB =>
                  /\ plan.Actions[i].Key \in UsedGD
                  /\ plan.Actions[i].GDItem = used.GDIndex[plan.Actions[i].Key]

C5_Witness ==
    /\ pc = "planned"
    /\ opts.DoSync
    /\ \E k \in UsedDB \cap UsedGD : CountActions(ActionSyncDB, k) = 1
    /\ \E k \in UsedDB \cap UsedGD : k \notin DOMAIN mismatches

(* C6: the summary counts of a plan are those of the key sets: missing     *)
(* storage = keys in (DB or gamedata) not in storage, missing gamedata =   *)
(* keys in (DB or storage) not in gamedata, missing DB = keys in (gamedata *)
(* or storage) not in DB, mismatches = keys with a non-empty mismatch      *)
(* list, total = size of the key union; no option enters the counts.       *)
C6_SummaryCounts ==
    (pc = "planned") =>
        /\ plan.Summary.MissingStorage = Cardinality((UsedDB \cup UsedGD) \ UsedST)
        /\ plan.Summary.MissingGamedata = Cardinality((UsedDB \cup UsedST) \ UsedGD)
        /\ plan.Summary.MissingDB = Cardinality((UsedGD \cup UsedST) \ UsedDB)
        /\ plan.Summary.Mismatches =
              Cardinality({k \in UsedDB \cap UsedGD : k \in DOMAIN mismatches})
        /\ plan.Summary.TotalItems = Cardinality(UsedUnion)

C6_Witness ==
    /\ pc = "planned"
    /\ opts.DoPurge /\ opts.Confirmed
    /\ plan.Summary.MissingStorage = 1
    /\ plan.Summary.MissingGamedata = 2
    /\ plan.Summary.MissingDB = 1
    /\ plan.Summary.TotalItems = 2
    /\ \E k \in UsedDB : k \notin UsedGD /\ k \notin UsedST

(* C7: ReconcileAll returns exactly one result per key of the union of the *)
(* DB-index keys, the gamedata-index keys and the storage-set keys, and    *)
(* the presence flags of each result are the memberships of its key.       *)
C7_UnionResults ==
    (pc = "reconciled") =>
        /\ {results[i].ID : i \in 1..Len(results)}
              = (DOMAIN dbIndex) \cup (DOMAIN gdIndex) \cup storageSet
        /\ \A i, j \in 1..Len(results) : results[i].ID = results[j].ID => i = j
        /\ \A i \in 1..Len(results) :
              /\ results[i].DBPresent = (results[i].ID \in DOMAIN dbIndex)
              /\ results[i].GamedataPresent = (results[i].ID \in DOMAIN gdIndex)
              /\ results[i].StoragePresent = (results[i].ID \in storageSet)

C7_Witness ==
    /\ pc = "reconciled"
    /\ Len(results) = 2
    /\ \E i \in 1..Len(results) :
          ~results[i].DBPresent /\ ~results[i].GamedataPresent /\ results[i].StoragePresent
    /\ \E i \in 1..Len(results) : results[i].DBPresent /\ results[i].GamedataPresent

(* C8: the engine invokes CompareFields for a key iff the key is in the DB *)
(* index and in the gamedata index; a result missing from DB or gamedata   *)
(* has an empty Mismatch list, a result present in both carries the list   *)
(* CompareFields returned.                                                 *)
C8_CompareIffBoth ==
    (pc \in {"reconciled", "planned"}) =>
        /\ cmpCalls = UsedDB \cap UsedGD
        /\ \A i \in 1..Len(LastResults) :
              LET r == LastResults[i]
              IN  IF r.ID \in UsedDB /\ r.ID \in UsedGD
                  THEN r.Mismatch = CompareFields(used.DBIndex[r.ID], used.GDIndex[r.ID])
                  ELSE r.Mismatch = <<>>

C8_Witness ==
    /\ pc = "planned"
    /\ \E i \in 1..Len(plan.Results) :
          /\ plan.Results[i].DBPresent
          /\ ~plan.Results[i].GamedataPresent
          /\ plan.Results[i].ID \in DOMAIN mismatches
    /\ \E i \in 1..Len(plan.Results) :
          plan.Results[i].ID \in cmpCalls /\ plan.Results[i].Mismatch = MismatchList

(***************************************************************************)
(* Concurrent callers. Every caller runs the same entry point once, either *)
(* ReconcileAll or GetOrBuildCache, one shared-memory step at a time. The  *)
(* singleflight group is the one of golang.org/x/sync: Do enters under the *)
(* group's mutex, the first caller for a key runs the function, the others *)
(* wait for it and share its result, and the call is removed from the      *)
(* group when the function has returned.                                   *)
(***************************************************************************)
EntryPoints == {"ReconcileAll", "GetOrBuildCache"}

(* The fast path "if exists && !cache.IsExpired()". *)
FastPathHit(cache) == cache # Nil /\ ~IsExpired(cache)

(* A single-flight function that builds without looking at the store again. *)
DoubleCheckNever(cache) == FALSE

(* The double-check inside the single-flight function. *)
DoubleCheckHit(cache) == cache # Nil /\ ~IsExpired(cache)

InitCallers ==
    /\ \E op \in EntryPoints : cop = [c \in Callers |-> op]
    /\ cpc = [c \in Callers |-> IF cop[c] = "ReconcileAll" THEN "build" ELSE "fast_read"]
    /\ clocal = [c \in Callers |-> [cache |-> Nil, err |-> NoError]]
    /\ cpart = [c \in Callers |-> {}]
    /\ sfCall = 0
    /\ sfJoined = [c \in Callers |-> 0]
    /\ sfDone = [c \in Callers |-> Nil]
    /\ cret = [c \in Callers |-> Nil]

InitCachedWorld ==
    /\ dbIndex = [k \in Keys |-> DBItemOf(k)]
    /\ gdIndex = [k \in {KeyPool[1]} |-> GDItemOf(k)]
    /\ storageSet = {KeyPool[1]}
    /\ mismatches = [k \in {KeyPool[1]} |-> MismatchList]
    /\ initial = [db |-> dbIndex, gd |-> gdIndex, st |-> storageSet, mm |-> mismatches]

InitC ==
    /\ InitCachedWorld
    /\ InitCache
    /\ InitCallers
    /\ GoIdle
    /\ invalidated = NotInvalidated
    /\ pc = "off"
    /\ opts = [DryRun |-> FALSE, DoPurge |-> FALSE, DoSync |-> FALSE, Confirmed |-> FALSE]
    /\ results = <<>>
    /\ plan = NoPlan
    /\ used = Nil
    /\ cmpCalls = {}
    /\ executed = 0
    /\ err = NoError
    /\ calls = <<>>
    /\ specAdapter = Nil
    /\ MutationIdle
    /\ EntryIdle
    /\ FurnitureIdle

(* time passes *)
Tick ==
    /\ now < MaxTime
    /\ now' = now + 1
    /\ UNCHANGED <<invalidated, goVars, mutVars, entryVars, furnVars, worldVars, ttl, caches, builds, buildErrs, loads, failedLoads, pipeVars, callerVars>>

(* GetOrBuildCache: read of the store under the read lock (fast path). *)
FastRead(c) ==
    /\ cpc[c] = "fast_read"
    /\ clocal' = [clocal EXCEPT ![c] = [cache |-> caches[CacheKey], err |-> NoError]]
    /\ cpc' = [cpc EXCEPT ![c] = "fast_check"]
    /\ UNCHANGED <<invalidated, goVars, mutVars, entryVars, furnVars, worldVars, cacheVars, pipeVars, cop, cpart, sfCall, sfJoined, sfDone, cret>>

(* GetOrBuildCache: "if exists && !cache.IsExpired() { return cache, nil }". *)
FastCheck(c) ==
    /\ cpc[c] = "fast_check"
    /\ IF FastPathHit(clocal[c].cache)
       THEN /\ cret' = [cret EXCEPT ![c] = clocal[c]]
            /\ cpc' = [cpc EXCEPT ![c] = "done"]
       ELSE /\ cret' = cret
            /\ cpc' = [cpc EXCEPT ![c] = "sf_do"]
    /\ UNCHANGED <<invalidated, goVars, mutVars, entryVars, furnVars, worldVars, cacheVars, pipeVars, cop, clocal, cpart, sfCall, sfJoined, sfDone>>

(* singleflight.Group.Do: lead a new call or join the one in flight. *)
SfDo(c) ==
    /\ cpc[c] = "sf_do"
    /\ IF sfCall = 0
       THEN /\ sfCall' = c
            /\ sfJoined' = sfJoined
            /\ sfDone' = [sfDone EXCEPT ![c] = Nil]
            /\ cpc' = [cpc EXCEPT ![c] = "sf_read"]
       ELSE /\ sfCall' = sfCall
            /\ sfJoined' = [sfJoined EXCEPT ![c] = sfCall]
            /\ sfDone' = sfDone
            /\ cpc' = [cpc EXCEPT ![c] = "sf_wait"]
    /\ UNCHANGED <<invalidated, goVars, mutVars, entryVars, furnVars, worldVars, cacheVars, pipeVars, cop, clocal, cpart, cret>>

(* Inside the single-flight function: read of the store under the read lock. *)
SfRead(c) ==
    /\ cpc[c] = "sf_read"
    /\ clocal' = [clocal EXCEPT ![c] = [cache |-> caches[CacheKey], err |-> NoError]]
    /\ cpc' = [cpc EXCEPT ![c] = "sf_check"]
    /\ UNCHANGED <<invalidated, goVars, mutVars, entryVars, furnVars, worldVars, cacheVars, pipeVars, cop, cpart, sfCall, sfJoined, sfDone, cret>>

(* Inside the single-flight function: the double-check, then BuildCache starts. *)
SfCheck(c) ==
    /\ cpc[c] = "sf_check"
    /\ IF DoubleCheckHit(clocal[c].cache)
       THEN cpc' = [cpc EXCEPT ![c] = "sf_return"]
       ELSE cpc' = [cpc EXCEPT ![c] = "build"]
    /\ UNCHANGED <<invalidated, goVars, mutVars, entryVars, furnVars, worldVars, cacheVars, pipeVars, cop, clocal, cpart, sfCall, sfJoined, sfDone, cret>>

(* BuildCache: one of the three load goroutines calls its load method. *)
Load(c) ==
    /\ cpc[c] = "build"
    /\ \E n \in LoadNames \ cpart[c] :
        /\ cpart' = [cpart EXCEPT ![c] = @ \cup {n}]
        /\ loads' = [loads EXCEPT ![n] = @ + 1]
        /\ builds' = IF cpart[c] = {} THEN builds + 1 ELSE builds
    /\ UNCHANGED <<invalidated, goVars, mutVars, entryVars, furnVars, worldVars, ttl, now, caches, buildErrs, failedLoads, pipeVars, cpc, cop, clocal,
                   sfCall, sfJoined, sfDone, cret>>

(* BuildCache after wg.Wait(): the error checks and the new record; the loads *)
(* in `failed` returned an error. ReconcileAll goes on to its results, the    *)
(* single-flight function to the store.                                       *)
BuildDone(c) ==
    /\ cpc[c] = "build"
    /\ cpart[c] = LoadNames
    /\ \E failed \in SUBSET LoadNames :
        LET e == BuildError(failed)
            cache == IF failed = {} THEN NewCache(dbIndex, gdIndex, storageSet, c) ELSE Nil
        IN  /\ buildErrs' = IF failed = {} THEN buildErrs ELSE buildErrs + 1
            /\ failedLoads' = failed
            /\ clocal' = [clocal EXCEPT ![c] = [cache |-> cache, err |-> e]]
            /\ IF cop[c] = "ReconcileAll"
               THEN /\ cpc' = [cpc EXCEPT ![c] = "done"]
                    /\ IF failed = {}
                       THEN \E order \in Orders(buildUnion(dbIndex, gdIndex, storageSet)) :
                                cret' = [cret EXCEPT ![c] =
                                    [cache |-> cache, err |-> e,
                                     results |-> SortByID(reconcileFromCache(cache, order))]]
                       ELSE cret' = [cret EXCEPT ![c] =
                                    [cache |-> Nil, err |-> e, results |-> <<>>]]
               ELSE /\ cpc' = [cpc EXCEPT ![c] = IF failed = {} THEN "store" ELSE "sf_return"]
                    /\ cret' = cret
    /\ cpart' = [cpart EXCEPT ![c] = {}]
    /\ UNCHANGED <<invalidated, goVars, mutVars, entryVars, furnVars, worldVars, ttl, now, caches, builds, loads, pipeVars, cop,
                   sfCall, sfJoined, sfDone>>

(* Inside the single-flight function: the store under the write lock. *)
Store(c) ==
    /\ cpc[c] = "store"
    /\ caches' = [caches EXCEPT ![CacheKey] = clocal[c].cache]
    /\ cpc' = [cpc EXCEPT ![c] = "sf_return"]
    /\ UNCHANGED <<invalidated, goVars, mutVars, entryVars, furnVars, worldVars, ttl, now, builds, buildErrs, loads, failedLoads, pipeVars, cop, clocal, cpart,
                   sfCall, sfJoined, sfDone, cret>>

(* The single-flight function has returned: the call leaves the group, its *)
(* result is published to the waiters and returned to the leader.          *)
SfReturn(c) ==
    /\ cpc[c] = "sf_return"
    /\ sfCall' = 0
    /\ sfDone' = [sfDone EXCEPT ![c] = clocal[c]]
    /\ cret' = [cret EXCEPT ![c] = clocal[c]]
    /\ cpc' = [cpc EXCEPT ![c] = "done"]
    /\ UNCHANGED <<invalidated, goVars, mutVars, entryVars, furnVars, worldVars, cacheVars, pipeVars, cop, clocal, cpart, sfJoined>>

(* A waiter of the single-flight call receives the leader's result. *)
SfWait(c) ==
    /\ cpc[c] = "sf_wait"
    /\ sfDone[sfJoined[c]] # Nil
    /\ cret' = [cret EXCEPT ![c] = sfDone[sfJoined[c]]]
    /\ cpc' = [cpc EXCEPT ![c] = "done"]
    /\ UNCHANGED <<invalidated, goVars, mutVars, entryVars, furnVars, worldVars, cacheVars, pipeVars, cop, clocal, cpart, sfCall, sfJoined, sfDone>>

NextC ==
    \/ Tick
    \/ \E c \in Callers :
        \/ FastRead(c)
        \/ FastCheck(c)
        \/ SfDo(c)
        \/ SfRead(c)
        \/ SfCheck(c)
        \/ Load(c)
        \/ BuildDone(c)
        \/ Store(c)
        \/ SfReturn(c)
        \/ SfWait(c)

SpecCache == InitC /\ [][NextC]_vars

AllDone == \A c \in Callers : cpc[c] = "done"

(***************************************************************************)
(* Properties of the concurrent callers.                                   *)
(***************************************************************************)
AllRun(op) == \A c \in Callers : cop[c] = op

(* The TTL is positive and has not elapsed since the callers started. *)
WithinTTL == ttl > 0 /\ now <= ttl

(* C9: concurrent ReconcileAll calls against the same spec with CacheTTL>0 *)
(* and an empty cache call LoadDBIndex, LoadGamedataIndex and              *)
(* LoadStorageSet exactly once each, and all result lists come from the    *)
(* same cache record.                                                      *)
C9_ReconcileAllSharesBuild ==
    (AllRun("ReconcileAll") /\ ttl > 0 /\ AllDone) =>
        /\ \A n \in LoadNames : loads[n] = 1
        /\ \A c, d \in Callers : cret[c].cache = cret[d].cache

(* C10 as stated: concurrent GetOrBuildCache callers sharing a cache key   *)
(* with TTL>0 and no fresh record run BuildCache exactly once while the    *)
(* TTL has not elapsed, and every caller receives the same record.         *)
C10_Original ==
    (AllRun("GetOrBuildCache") /\ WithinTTL) =>
        /\ builds <= 1
        /\ AllDone =>
              /\ builds = 1
              /\ \A c, d \in Callers : cret[c] = cret[d]

(* C10 amended: while the TTL has not elapsed, at most one BuildCache run  *)
(* is under way or has produced a record, every caller that receives a    *)
(* record receives the same one, and if no BuildCache run has failed then  *)
(* BuildCache runs exactly once and every caller receives its record.      *)
C10_BuildOnce ==
    (AllRun("GetOrBuildCache") /\ WithinTTL) =>
        /\ builds - buildErrs <= 1
        /\ \A c, d \in Callers :
              (/\ cpc[c] = "done" /\ cret[c].cache # Nil
               /\ cpc[d] = "done" /\ cret[d].cache # Nil)
                  => cret[c].cache = cret[d].cache
        /\ buildErrs = 0 =>
              /\ builds <= 1
              /\ AllDone =>
                    /\ builds = 1
                    /\ \A c \in Callers : cret[c].cache # Nil /\ cret[c].err = NoError

C10_Witness ==
    /\ AllRun("GetOrBuildCache")
    /\ WithinTTL
    /\ AllDone
    /\ builds = 1
    /\ buildErrs = 0
    /\ \E c \in Callers : sfJoined[c] # 0
    /\ \A c, d \in Callers : cret[c].cache # Nil /\ cret[c].cache = cret[d].cache

(* The store holds a record for the cache key with now - built_at <= ttl. *)
StoredFresh ==
    /\ caches[CacheKey] # Nil
    /\ now - caches[CacheKey].Built <= ttl

(* A record read at the very clock reading at which it was built. *)
ZeroAge ==
    /\ caches[CacheKey] # Nil
    /\ now = caches[CacheKey].Built

C12_ZeroTTLBypassesCache ==
    ttl = 0 => caches[CacheKey] = Nil

(* C13: if any of LoadDBIndex, LoadGamedataIndex or LoadStorageSet returns *)
(* an error, BuildCache returns the error of one of the failed loads and   *)
(* no cache record, nothing is stored, and ReconcileAll and                *)
(* ReconcileWithPlan return that error with no results and no plan; they   *)
(* fail in no other case.                                                  *)
C13_LoadErrorAborts ==
    /\ failedLoads # {} =>
          /\ pc = "failed"
          /\ \E n \in failedLoads : err = BuildError({n})
          /\ used = Nil
          /\ results = <<>>
          /\ plan = NoPlan
          /\ cmpCalls = {}
          /\ caches[CacheKey] = Nil
    /\ pc = "failed" => failedLoads # {}

(* The gamedata and storage loads failed while the DB load succeeded. *)
C13_Witness ==
    /\ pc = "failed"
    /\ failedLoads = {"gd", "storage"}
    /\ err = "gamedata error"
    /\ dbIndex # <<>>
    /\ \A n \in LoadNames : loads[n] = 1

(***************************************************************************)
(* The furniture adapter (feature/furniture/reconcile). Strings are        *)
(* sequences of one-character strings, so that prefixes, suffixes, path    *)
(* components and decimal conversion are computed.                         *)
(***************************************************************************)
Digits == <<"0", "1", "2", "3", "4", "5", "6", "7", "8", "9">>

DigitSet == {Digits[i] : i \in 1..10}

DigitValue(ch) == (CHOOSE i \in 1..10 : Digits[i] = ch) - 1

(* strconv.Itoa for n >= 0 *)
RECURSIVE Itoa(_)
Itoa(n) ==
    IF n < 10 THEN <<Digits[n + 1]>>
    ELSE Itoa(n \div 10) \o <<Digits[(n % 10) + 1]>>

(* the digits of a string after an optional sign *)
Unsigned(str) ==
    IF str # <<>> /\ str[1] \in {"+", "-"} THEN Tail(str) ELSE str

(* strconv.Atoi returns no error *)
AtoiOK(str) ==
    /\ Unsigned(str) # <<>>
    /\ \A i \in 1..Len(Unsigned(str)) : Unsigned(str)[i] \in DigitSet

RECURSIVE DecimalValue(_)
DecimalValue(ds) ==
    IF ds = <<>> THEN 0
    ELSE 10 * DecimalValue(SubSeq(ds, 1, Len(ds) - 1)) + DigitValue(ds[Len(ds)])

(* the value strconv.Atoi returns for a string it accepts *)
Atoi(str) ==
    IF str[1] = "-" THEN 0 - DecimalValue(Unsigned(str)) ELSE DecimalValue(Unsigned(str))

HasPrefix(str, pre) ==
    Len(str) >= Len(pre) /\ SubSeq(str, 1, Len(pre)) = pre

HasSuffix(str, suf) ==
    Len(str) >= Len(suf) /\ SubSeq(str, Len(str) - Len(suf) + 1, Len(str)) = suf

TrimPrefix(str, pre) ==
    IF HasPrefix(str, pre) THEN SubSeq(str, Len(pre) + 1, Len(str)) ELSE str

TrimSuffix(str, suf) ==
    IF HasSuffix(str, suf) THEN SubSeq(str, 1, Len(str) - Len(suf)) ELSE str

(* the last element of strings.Split(str, "/") *)
LastPart(str) ==
    LET slashes == {i \in 1..Len(str) : str[i] = "/"}
    IN  IF slashes = {} THEN str
        ELSE SubSeq(str, (CHOOSE i \in slashes : \A j \in slashes : j <= i) + 1, Len(str))

(* truncateStr *)
truncateStr(str, maxLen) ==
    IF Len(str) <= maxLen THEN str ELSE SubSeq(str, 1, maxLen)

(* A map write that keeps an existing entry. *)
PutIfAbsent(m, k, v) == [x \in DOMAIN m \cup {k} |-> IF x \in DOMAIN m THEN m[x] ELSE v]

(* m[k] = v on a Go map *)
Put(m, k, v) == [x \in DOMAIN m \cup {k} |-> IF x = k THEN v ELSE m[x]]

(* spec.StoragePrefix and spec.StorageExtension of the furniture spec *)
StoragePrefix == <<"f">>

StorageExtension == <<".", "n">>

(* the object key "%s/%s.nitro" of the mutations *)
ObjectKeyOf(classname) == StoragePrefix \o <<"/">> \o classname \o StorageExtension

(* GetProfileByName: the logical columns the profile maps to a table column *)
AllColumns ==
    {"id", "sprite_id", "item_name", "public_name", "width", "length", "stack_height",
     "can_stack", "can_sit", "can_walk", "can_lay", "type", "interaction_type", "is_rare"}

ProfileColumns(name) ==
    IF name = "plus" THEN AllColumns \ {"can_lay"}
    ELSE AllColumns \ {"is_rare"}

(* LoadDBIndex: the DBItem of a table row under a profile *)
RowItem(row, prof) ==
    [ID |-> row.id,
     SpriteID |-> row.sprite_id,
     ItemName |-> row.item_name,
     PublicName |-> row.public_name,
     Width |-> row.width,
     Length |-> row.length,
     CanSit |-> row.can_sit,
     CanWalk |-> row.can_walk,
     CanLay |-> IF "can_lay" \in ProfileColumns(prof) THEN row.can_lay ELSE FALSE,
     Type |-> row.type]

(* LoadDBIndex: the index keyed by strconv.Itoa(item.SpriteID) *)
LoadDBIndex(tbl, prof) ==
    [k \in {Itoa(id) : id \in DOMAIN tbl} |->
        RowItem(tbl[CHOOSE id \in DOMAIN tbl : Itoa(id) = k], prof)]

(* json.Unmarshal of one catalog object into a GDItem: the fields the     *)
(* struct declares; Type is tagged json:"-", other members are dropped.    *)
Unmarshal(obj) ==
    [ID |-> obj.ID, ClassName |-> obj.ClassName, Name |-> obj.Name,
     XDim |-> obj.XDim, YDim |-> obj.YDim, CanSitOn |-> obj.CanSitOn,
     CanStandOn |-> obj.CanStandOn, CanLayOn |-> obj.CanLayOn, Type |-> ""]

(* json.MarshalIndent of one GDItem: the declared fields and nothing else. *)
MarshalIndent(item) ==
    [ID |-> item.ID, ClassName |-> item.ClassName, Name |-> item.Name,
     XDim |-> item.XDim, YDim |-> item.YDim, CanSitOn |-> item.CanSitOn,
     CanStandOn |-> item.CanStandOn, CanLayOn |-> item.CanLayOn, Extra |-> <<>>]

(* LoadGamedataIndex: one of the two loops over a section of the catalog *)
RECURSIVE AddItems(_, _, _)
AddItems(items, type, st) ==
    IF items = <<>> THEN st
    ELSE LET item == Unmarshal(Head(items))
         IN  IF item.ID > 0 /\ item.ClassName # <<>>
             THEN LET key == Itoa(item.ID)
                  IN  AddItems(Tail(items), type,
                               [index |-> Put(st.index, key, [item EXCEPT !.Type = type]),
                                c2i |-> Put(st.c2i, item.ClassName, key),
                                i2c |-> Put(st.i2c, key, item.ClassName)])
             ELSE AddItems(Tail(items), type, st)

(* LoadGamedataIndex: room items, then wall items, into the index and the  *)
(* adapter's two maps, which are never cleared.                            *)
PopulateMaps(cat, c2i, i2c) ==
    AddItems(cat.wall, "i", AddItems(cat.room, "s", [index |-> <<>>, c2i |-> c2i, i2c |-> i2c]))

ExtractStorageKey(objectKey, prefix, extension) ==
    IF ~HasSuffix(objectKey, extension) THEN [key |-> <<>>, ok |-> FALSE]
    ELSE IF ~HasPrefix(objectKey, prefix) THEN [key |-> <<>>, ok |-> FALSE]
    ELSE LET relPath == TrimPrefix(SubSeq(objectKey, Len(prefix) + 1, Len(objectKey)), <<"/">>)
             relPathNoExt == TrimSuffix(relPath, extension)
             filename == LastPart(relPathNoExt)
             found == filename \in DOMAIN classnameToID
             id == IF found THEN classnameToID[filename] ELSE <<>>
             hasReverse == id \in DOMAIN idToClassname
         IN  IF found /\ hasReverse /\ idToClassname[id] = filename
             THEN [key |-> id, ok |-> TRUE]
             ELSE [key |-> relPathNoExt, ok |-> TRUE]

(* FurnitureAdapter.CompareFields: the fields that differ *)
FieldDiffers(db, gd) ==
    [name |-> db.PublicName # gd.Name /\ db.PublicName # gd.ClassName,
     classname |-> db.ItemName # gd.ClassName,
     width |-> db.Width # gd.XDim,
     length |-> db.Length # gd.YDim,
     can_sit |-> db.CanSit # gd.CanSitOn,
     can_walk |-> db.CanWalk # gd.CanStandOn,
     can_lay |-> db.CanLay # gd.CanLayOn,
     type |-> IF db.Type = "i" THEN gd.Type # "i" ELSE gd.Type = "i"]

ComparedFields ==
    <<"name", "classname", "width", "length", "can_sit", "can_walk", "can_lay", "type">>

(* FurnitureAdapter.CompareFields: one mismatch entry per differing field, *)
(* in the order of the comparisons                                         *)
FurnitureCompareFields(db, gd) ==
    SelectSeq(ComparedFields, LAMBDA f : FieldDiffers(db, gd)[f])

(***************************************************************************)
(* The furniture adapter's mutations on the three stores, w.catalog,       *)
(* w.bucket and w.table. Removing an object that does not exist succeeds,  *)
(* as in S3.                                                               *)
(***************************************************************************)
FurnitureWorld == [catalog |-> catalog, bucket |-> bucket, table |-> table]

(* the sprite ids or gamedata ids named by the keys that strconv.Atoi accepts *)
IdsOf(keys) == {Atoi(keys[j]) : j \in {i \in 1..Len(keys) : AtoiOK(keys[i])}}

DeleteDBBatch(w, keys) ==
    [w EXCEPT !.table = Restrict(@, (DOMAIN @) \ IdsOf(keys))]

(* the items of one catalog section that are written back *)
Survivors(section, ids) ==
    LET items == [i \in 1..Len(section) |-> Unmarshal(section[i])]
        kept == SelectSeq(items, LAMBDA item : item.ID \notin ids)
    IN  [i \in 1..Len(kept) |-> MarshalIndent(kept[i])]

DeleteGamedataBatch(w, keys) ==
    [w EXCEPT !.catalog =
        [room |-> Survivors(@.room, IdsOf(keys)),
         wall |-> Survivors(@.wall, IdsOf(keys))]]

(* DeleteStorageBatch: the object a key stands for *)
StorageObjectOf(key) ==
    IF AtoiOK(key) /\ key \in DOMAIN idToClassname
    THEN ObjectKeyOf(idToClassname[key])
    ELSE ObjectKeyOf(key)

DeleteStorageBatch(w, keys) ==
    [w EXCEPT !.bucket = @ \ {StorageObjectOf(keys[j]) : j \in 1..Len(keys)}]

maxNameLen == 110

(* SyncDBFromGamedata: the row after the update *)
SyncedRow(row, gd, prof) ==
    [row EXCEPT !.item_name = truncateStr(gd.ClassName, maxNameLen),
                !.public_name = truncateStr(gd.Name, maxNameLen),
                !.width = gd.XDim,
                !.length = gd.YDim,
                !.can_sit = gd.CanSitOn,
                !.can_walk = gd.CanStandOn,
                !.can_lay = IF "can_lay" \in ProfileColumns(prof) THEN gd.CanLayOn ELSE @,
                !.type = gd.Type]

(* SyncDBFromGamedata returns an error: the key is no number or no row matched *)
SyncFails(w, key) == ~AtoiOK(key) \/ Atoi(key) \notin DOMAIN w.table

SyncDBFromGamedata(w, key, gd, prof) ==
    IF SyncFails(w, key) THEN w
    ELSE [w EXCEPT !.table[Atoi(key)] = SyncedRow(@, gd, prof)]

(* SyncDBBatch: the workers run SyncDBFromGamedata for every action; the   *)
(* actions target different rows, so their order does not matter.          *)
RECURSIVE SyncDBBatch(_, _, _, _)
SyncDBBatch(w, keys, items, prof) ==
    IF keys = <<>> THEN w
    ELSE SyncDBBatch(SyncDBFromGamedata(w, Head(keys), Head(items), prof),
                     Tail(keys), Tail(items), prof)

(* One batch call of ApplyPlan carried out on the stores. *)
FurnitureCall(w, call, prof) ==
    IF call.method = "DeleteDBBatch" THEN DeleteDBBatch(w, call.keys)
    ELSE IF call.method = "DeleteGamedataBatch" THEN DeleteGamedataBatch(w, call.keys)
    ELSE IF call.method = "DeleteStorageBatch" THEN DeleteStorageBatch(w, call.keys)
    ELSE SyncDBBatch(w, call.keys, call.items, prof)

(* A batch call that returned an error because of the key badKey: the bulk *)
(* delete and the worker pool have handled the other keys, the single      *)
(* statement and the single write have changed nothing.                    *)
FurnitureFailedCall(w, call, badKey, prof) ==
    LET ix == SelectSeq([j \in 1..Len(call.keys) |-> j], LAMBDA j : call.keys[j] # badKey)
        good == [method |-> call.method,
                 keys |-> [i \in 1..Len(ix) |-> call.keys[ix[i]]],
                 items |-> [i \in 1..Len(ix) |-> call.items[ix[i]]]]
    IN  IF call.method \in {"DeleteStorageBatch", "SyncDBBatch"}
        THEN FurnitureCall(w, good, prof)
        ELSE w

(* The batch calls of one ApplyPlan run, in order; if the run returned an  *)
(* error, its last call is the one that failed.                            *)
RECURSIVE FurnitureCalls(_, _, _, _, _)
FurnitureCalls(w, cs, failed, badKey, prof) ==
    IF cs = <<>> THEN w
    ELSE IF Len(cs) = 1 /\ failed THEN FurnitureFailedCall(w, Head(cs), badKey, prof)
    ELSE FurnitureCalls(FurnitureCall(w, Head(cs), prof), Tail(cs), failed, badKey, prof)

(***************************************************************************)
(* A run with the furniture adapter: BuildCache with its three load        *)
(* goroutines, a plan, ApplyPlan, and a second BuildCache on the stores as *)
(* the apply left them, with the same adapter or a new one.                *)
(***************************************************************************)
MaxBuilds == 2

Item(id, classname, name, xdim, lay) ==
    [ID |-> id, ClassName |-> classname, Name |-> name, XDim |-> xdim, YDim |-> 1,
     CanSitOn |-> FALSE, CanStandOn |-> FALSE, CanLayOn |-> lay, Extra |-> <<>>]

Row(id, itemName, publicName, width, lay, type) ==
    [id |-> id, sprite_id |-> id, item_name |-> itemName, public_name |-> publicName, width |-> width,
     length |-> 1, can_sit |-> FALSE, can_walk |-> FALSE, can_lay |-> lay, type |-> type]

(* a name of 111 characters *)
LongName == [i \in 1..(maxNameLen + 1) |-> "x"]

(* Catalog items: two that share a classname, two that share an ID, and one *)
(* that the load skips.                                                     *)
ItemPool ==
    {Item(1, <<"a">>, <<"n">>, 1, FALSE), Item(2, <<"a">>, <<"n">>, 1, FALSE),
     Item(1, <<"b">>, <<"n">>, 1, FALSE), Item(0, <<>>, <<"n">>, 1, FALSE)}

ItemLists(n) == UNION {[1..m -> ItemPool] : m \in 0..n}

Catalogs ==
    {[room |-> r, wall |-> w] : r \in ItemLists(2), w \in ItemLists(1)} \ 
        {[room |-> r, wall |-> w] : r \in [1..2 -> ItemPool], w \in [1..1 -> ItemPool]}

(* Objects: a canonical one, a nested one, one with a numeric basename, one *)
(* without the extension and one outside the prefix.                        *)
ObjectPool ==
    {<<"f", "/", "a", ".", "n">>, <<"f", "/", "s", "/", "a", ".", "n">>,
     <<"f", "/", "1", ".", "n">>, <<"f", "/", "a", ".", "x">>,
     <<"g", "/", "a", ".", "n">>}

Buckets == {b \in SUBSET ObjectPool : Cardinality(b) <= 2}

Tables == {[id \in S |-> Row(id, <<"a">>, <<"n">>, 1, FALSE, "s")] : S \in SUBSET {1, 2}}

(* The inputs of the sync round trip: one item and its row under each profile. *)
SyncItems ==
    {Item(1, cn, name, x, lay) :
        cn \in {<<"a">>, LongName}, name \in {<<"n">>, LongName}, x \in {1, 2}, lay \in BOOLEAN}

SyncRows ==
    {Row(1, itemName, <<"n">>, 1, lay, type) :
        itemName \in {<<"a">>, <<"b">>}, lay \in BOOLEAN, type \in {"s", "i"}}

Profiles == {"arcturus", "comet", "plus"}

InitStores ==
    \/ /\ catalog \in Catalogs
       /\ bucket \in Buckets
       /\ table \in Tables
       /\ profile = "arcturus"
    \/ /\ \E item \in SyncItems :
             catalog \in {[room |-> <<item>>, wall |-> <<>>], [room |-> <<>>, wall |-> <<item>>]}
       /\ bucket = {<<"f", "/", "a", ".", "n">>}
       /\ profile \in Profiles
       /\ \E row \in SyncRows :
             /\ "can_lay" \notin ProfileColumns(profile) => ~row.can_lay
             /\ table = [id \in {1} |-> row]

(* NewAdapter *)
NewAdapter ==
    /\ classnameToID = <<>>
    /\ idToClassname = <<>>
    /\ mappingReady = FALSE

InitF ==
    /\ InitStores
    /\ NewAdapter
    /\ fpc = "idle"
    /\ buildNo = 0
    /\ gdLoaded = Nil
    /\ dbLoaded = Nil
    /\ stPos = "done"
    /\ listed = {}
    /\ keyOf = <<>>
    /\ early = {}
    /\ fcache = Nil
    /\ fopts = [DryRun |-> FALSE, DoPurge |-> FALSE, DoSync |-> FALSE, Confirmed |-> FALSE]
    /\ fplan = NoPlan
    /\ ferr = NoError
    /\ applied = Nil
    /\ dbIndex = <<>> /\ gdIndex = <<>> /\ storageSet = {} /\ mismatches = <<>>
    /\ initial = [db |-> <<>>, gd |-> <<>>, st |-> {}, mm |-> <<>>]
    /\ InitCache
    /\ ttl = 0
    /\ pc = "off"
    /\ opts = [DryRun |-> FALSE, DoPurge |-> FALSE, DoSync |-> FALSE, Confirmed |-> FALSE]
    /\ results = <<>>
    /\ plan = NoPlan
    /\ used = Nil
    /\ cmpCalls = {}
    /\ executed = 0
    /\ err = NoError
    /\ calls = <<>>
    /\ specAdapter = Nil
    /\ MutationIdle
    /\ EntryIdle
    /\ CallersIdle
    /\ GoIdle
    /\ invalidated = NotInvalidated

(* buildResult with the furniture adapter's ResolveName, GetMetadata and   *)
(* CompareFields                                                           *)
furnitureResult(key, db, gd, st) ==
    LET dbPresent == key \in DOMAIN db
        gdPresent == key \in DOMAIN gd
    IN  [ID |-> key,
         Name |-> IF dbPresent THEN db[key].PublicName
                  ELSE IF gdPresent THEN gd[key].Name ELSE <<>>,
         Metadata |-> IF gdPresent /\ gd[key].ClassName # <<>> THEN gd[key].ClassName
                      ELSE IF dbPresent THEN db[key].ItemName ELSE <<>>,
         DBPresent |-> dbPresent,
         GamedataPresent |-> gdPresent,
         StoragePresent |-> key \in st,
         Mismatch |-> IF ComparesFields(dbPresent, gdPresent)
                      THEN FurnitureCompareFields(db[key], gd[key])
                      ELSE <<>>]

(* reconcileFromCache with the furniture adapter, the keys visited in one  *)
(* order: the apply groups the actions by kind, and a batch treats its     *)
(* keys as a set.                                                          *)
furnitureResults(cache) ==
    LET order == CHOOSE o \in Orders(buildUnion(cache.DBIndex, cache.GDIndex, cache.StorageSet)) : TRUE
    IN  [i \in 1..Len(order) |->
            furnitureResult(order[i], cache.DBIndex, cache.GDIndex, cache.StorageSet)]

(* The furniture adapter implements Mutator and the four batch interfaces. *)
FurnitureAdapter ==
    [Mutator |-> TRUE, DBBatch |-> TRUE, GDBatch |-> TRUE, StorageBatch |-> TRUE, SyncBatch |-> TRUE]

(* BuildCache starts: on a new adapter, or on the one of the build before. *)
StartBuild ==
    /\ fpc \in {"idle", "applied"}
    /\ buildNo < MaxBuilds
    /\ buildNo' = buildNo + 1
    /\ fpc' = "build"
    /\ gdLoaded' = Nil
    /\ dbLoaded' = Nil
    /\ stPos' = "wait"
    /\ listed' = {}
    /\ keyOf' = <<>>
    /\ early' = {}
    /\ \/ UNCHANGED <<invalidated, goVars, classnameToID, idToClassname, mappingReady>>
       \/ /\ fpc = "applied"
          /\ classnameToID' = <<>>
          /\ idToClassname' = <<>>
          /\ mappingReady' = FALSE
    /\ UNCHANGED <<invalidated, goVars, mutVars, entryVars, worldVars, cacheVars, pipeVars, callerVars, catalog, bucket, table, profile,
                   fcache, fopts, fplan, ferr, applied>>

(* LoadGamedataIndex: under the write lock, fills the index and the two    *)
(* maps, then closes mappingReady if it is still open.                     *)
LoadGamedataIndex ==
    /\ fpc = "build"
    /\ gdLoaded = Nil
    /\ LET r == PopulateMaps(catalog, classnameToID, idToClassname)
       IN  /\ gdLoaded' = r.index
           /\ classnameToID' = r.c2i
           /\ idToClassname' = r.i2c
    /\ mappingReady' = TRUE
    /\ UNCHANGED <<invalidated, goVars, mutVars, entryVars, worldVars, cacheVars, pipeVars, callerVars, catalog, bucket, table, profile,
                   fpc, buildNo, dbLoaded, stPos, listed, keyOf, early,
                   fcache, fopts, fplan, ferr, applied>>

(* The goroutine of LoadDBIndex. *)
LoadDB ==
    /\ fpc = "build"
    /\ dbLoaded = Nil
    /\ dbLoaded' = IF handle = "nil" THEN <<>> ELSE LoadDBIndex(table, profile)
    /\ UNCHANGED <<invalidated, goVars, mutVars, entryVars, worldVars, cacheVars, pipeVars, callerVars, catalog, bucket, table, profile,
                   classnameToID, idToClassname, mappingReady,
                   fpc, buildNo, gdLoaded, stPos, listed, keyOf, early,
                   fcache, fopts, fplan, ferr, applied>>

(* LoadStorageSet: "case <-a.mappingReady" and the listing of the bucket. *)
LoadStorageSetList ==
    /\ fpc = "build"
    /\ stPos = "wait"
    /\ mappingReady
    /\ listed' = bucket
    /\ stPos' = "extract"
    /\ UNCHANGED <<invalidated, goVars, mutVars, entryVars, worldVars, cacheVars, pipeVars, callerVars, catalog, bucket, table, profile,
                   classnameToID, idToClassname, mappingReady,
                   fpc, buildNo, gdLoaded, dbLoaded, keyOf, early,
                   fcache, fopts, fplan, ferr, applied>>

(* LoadStorageSet: ExtractStorageKey for one listed object. *)
LoadStorageSetExtract ==
    /\ fpc = "build"
    /\ stPos = "extract"
    /\ \E obj \in listed :
        LET r == ExtractStorageKey(obj, StoragePrefix, StorageExtension)
        IN  /\ listed' = listed \ {obj}
            /\ keyOf' = IF r.ok THEN Put(keyOf, obj, r.key) ELSE keyOf
            /\ early' = IF gdLoaded = Nil THEN early \cup {obj} ELSE early
    /\ UNCHANGED <<invalidated, goVars, mutVars, entryVars, worldVars, cacheVars, pipeVars, callerVars, catalog, bucket, table, profile,
                   classnameToID, idToClassname, mappingReady,
                   fpc, buildNo, gdLoaded, dbLoaded, stPos,
                   fcache, fopts, fplan, ferr, applied>>

(* LoadStorageSet returns the set. *)
LoadStorageSetDone ==
    /\ fpc = "build"
    /\ stPos = "extract"
    /\ listed = {}
    /\ stPos' = "done"
    /\ UNCHANGED <<invalidated, goVars, mutVars, entryVars, worldVars, cacheVars, pipeVars, callerVars, catalog, bucket, table, profile,
                   classnameToID, idToClassname, mappingReady,
                   fpc, buildNo, gdLoaded, dbLoaded, listed, keyOf, early,
                   fcache, fopts, fplan, ferr, applied>>

(* the storage set of the build: the keys of the objects handled *)
StorageKeys == {keyOf[obj] : obj \in DOMAIN keyOf}

(* BuildCache after wg.Wait(): the record of the three indices. *)
FurnitureBuildDone ==
    /\ fpc = "build"
    /\ gdLoaded # Nil
    /\ dbLoaded # Nil
    /\ stPos = "done"
    /\ fcache' = [DBIndex |-> dbLoaded, GDIndex |-> gdLoaded, StorageSet |-> StorageKeys]
    /\ fpc' = "built"
    /\ UNCHANGED <<invalidated, goVars, mutVars, entryVars, worldVars, cacheVars, pipeVars, callerVars, catalog, bucket, table, profile,
                   classnameToID, idToClassname, mappingReady,
                   buildNo, gdLoaded, dbLoaded, stPos, listed, keyOf, early,
                   fopts, fplan, ferr, applied>>

(* ReconcileWithPlan on the record just built, for a confirmed run. *)
FurniturePlan ==
    /\ fpc = "built"
    /\ \E o \in {x \in Options : x.Confirmed /\ ~x.DryRun} :
        LET rs == furnitureResults(fcache)
            b == buildPlanFromResults(rs, fcache, o)
        IN  /\ fopts' = o
            /\ fplan' = [Results |-> rs, Actions |-> b.Actions, Summary |-> b.Summary]
    /\ fpc' = "planned"
    /\ UNCHANGED <<invalidated, goVars, mutVars, entryVars, worldVars, cacheVars, pipeVars, callerVars, catalog, bucket, table, profile,
                   classnameToID, idToClassname, mappingReady,
                   buildNo, gdLoaded, dbLoaded, stPos, listed, keyOf, early,
                   fcache, ferr, applied>>

(* ApplyPlan with the furniture adapter; the batch holding the action at   *)
(* index `bad` returns an error (0: none does).                            *)
FurnitureApply ==
    /\ fpc = "planned"
    /\ applied = Nil
    /\ \E bad \in 0..Len(fplan.Actions) :
        LET r == ApplyPlan(fplan, fopts, FurnitureAdapter, bad,
                           [db |-> <<>>, gd |-> <<>>, st |-> {}, mm |-> <<>>])
            badKey == IF bad = 0 THEN Nil ELSE fplan.Actions[bad].Key
            w == FurnitureCalls(FurnitureWorld, r.calls, r.err # NoError, badKey, profile)
        IN  /\ ferr' = r.err
            /\ catalog' = w.catalog
            /\ bucket' = w.bucket
            /\ table' = w.table
    /\ applied' = [plan |-> fplan, opts |-> fopts, keyOf |-> keyOf]
    /\ fpc' = "applied"
    /\ UNCHANGED <<invalidated, goVars, mutVars, entryVars, worldVars, cacheVars, pipeVars, callerVars, profile,
                   classnameToID, idToClassname, mappingReady,
                   buildNo, gdLoaded, dbLoaded, stPos, listed, keyOf, early,
                   fcache, fopts, fplan>>

NextF ==
    \/ StartBuild
    \/ LoadGamedataIndex
    \/ LoadDB
    \/ LoadStorageSetList
    \/ LoadStorageSetExtract
    \/ LoadStorageSetDone
    \/ FurnitureBuildDone
    \/ FurniturePlan
    \/ FurnitureApply

SpecFurniture == InitF /\ [][NextF]_vars

(***************************************************************************)
(* Properties of the furniture adapter.                                    *)
(***************************************************************************)
(* the path of an object under the prefix, without the extension *)
RelPathNoExt(obj) ==
    TrimSuffix(TrimPrefix(SubSeq(obj, Len(StoragePrefix) + 1, Len(obj)), <<"/">>),
               StorageExtension)

(* the object has the extension and lies under the prefix *)
IsStorageObject(obj) == HasSuffix(obj, StorageExtension) /\ HasPrefix(obj, StoragePrefix)

(* at least one directory lies between the prefix and the basename *)
Nested(obj) ==
    /\ IsStorageObject(obj)
    /\ \E i \in 1..Len(RelPathNoExt(obj)) : RelPathNoExt(obj)[i] = "/"

(* the items of the catalog that LoadGamedataIndex does not skip, in the   *)
(* order in which it handles them                                          *)
ValidItems ==
    SelectSeq(catalog.room \o catalog.wall, LAMBDA item : item.ID > 0 /\ item.ClassName # <<>>)

(* the catalog was loaded by LoadGamedataIndex and has not changed since *)
CatalogLoaded == fpc \in {"build", "built", "planned"} /\ gdLoaded # Nil

(* C14: in every BuildCache run, every ExtractStorageKey call made by      *)
(* LoadStorageSet happens after that build's LoadGamedataIndex has filled  *)
(* the two maps.                                                           *)
C14_ExtractAfterGamedata == early = {}

(* C15 as stated: after LoadGamedataIndex, every valid catalog item has    *)
(* classnameToID[classname] = str(id) and idToClassname[str(id)] =         *)
(* classname, and the two maps are mutually inverse, whatever the catalog. *)
C15_Original ==
    CatalogLoaded =>
        /\ \A i \in 1..Len(ValidItems) :
              /\ classnameToID[ValidItems[i].ClassName] = Itoa(ValidItems[i].ID)
              /\ idToClassname[Itoa(ValidItems[i].ID)] = ValidItems[i].ClassName
        /\ \A cn \in DOMAIN classnameToID :
              /\ classnameToID[cn] \in DOMAIN idToClassname
              /\ idToClassname[classnameToID[cn]] = cn
        /\ \A id \in DOMAIN idToClassname :
              /\ idToClassname[id] \in DOMAIN classnameToID
              /\ classnameToID[idToClassname[id]] = id

(* no two valid items of the catalog share a classname or an ID *)
UniqueCatalog ==
    \A i, j \in 1..Len(ValidItems) :
        i # j => /\ ValidItems[i].ClassName # ValidItems[j].ClassName
                 /\ ValidItems[i].ID # ValidItems[j].ID

(* C15 amended: after LoadGamedataIndex, if no two valid items share a     *)
(* classname or an ID, every valid item has both entries; in any catalog   *)
(* the last valid item with a classname (room items first) owns the        *)
(* forward entry and the last valid item with an ID owns the reverse one.  *)
C15_MapsFollowCatalog ==
    CatalogLoaded =>
        /\ UniqueCatalog =>
              \A i \in 1..Len(ValidItems) :
                  /\ classnameToID[ValidItems[i].ClassName] = Itoa(ValidItems[i].ID)
                  /\ idToClassname[Itoa(ValidItems[i].ID)] = ValidItems[i].ClassName
        /\ \A i \in 1..Len(ValidItems) :
              /\ (\A j \in (i + 1)..Len(ValidItems) :
                      ValidItems[j].ClassName # ValidItems[i].ClassName)
                   => classnameToID[ValidItems[i].ClassName] = Itoa(ValidItems[i].ID)
              /\ (\A j \in (i + 1)..Len(ValidItems) : ValidItems[j].ID # ValidItems[i].ID)
                   => idToClassname[Itoa(ValidItems[i].ID)] = ValidItems[i].ClassName

(* Two items with different classnames and IDs, loaded by the first build. *)
C15_Witness ==
    /\ CatalogLoaded
    /\ UniqueCatalog
    /\ Len(ValidItems) = 2
    /\ catalog.wall # <<>>
    /\ DOMAIN classnameToID = {<<"a">>, <<"b">>}
    /\ DOMAIN idToClassname = {<<"1">>, <<"2">>}

(* C16: for every object with the extension that lies under the prefix in  *)
(* a subdirectory, ExtractStorageKey returns the relative path without the *)
(* extension, never an ID.                                                 *)
C16_NestedIsRelativePath ==
    \A obj \in DOMAIN keyOf : Nested(obj) => keyOf[obj] = RelPathNoExt(obj)

(* C17: every key of the storage set of a build is either the ID of the    *)
(* gamedata item whose classname is the object's basename, or a relative   *)
(* path that is no key of the gamedata index loaded in the same build.     *)
C17_StorageKeysDoNotAlias ==
    fpc = "built" =>
        \A obj \in DOMAIN keyOf :
            \/ /\ keyOf[obj] \in DOMAIN fcache.GDIndex
               /\ AtoiOK(keyOf[obj])
               /\ fcache.GDIndex[keyOf[obj]].ClassName = LastPart(RelPathNoExt(obj))
            \/ /\ keyOf[obj] \notin DOMAIN fcache.GDIndex
               /\ keyOf[obj] = RelPathNoExt(obj)

(* the plan of the run was applied without error and its stores reloaded *)
Reloaded == fpc \in {"built", "planned"} /\ applied # Nil /\ ferr = NoError

(* the results of the applied plan that miss from some store *)
Incomplete(r) == ~r.DBPresent \/ ~r.GamedataPresent \/ ~r.StoragePresent

(* every incomplete item of the applied plan missed from exactly one store *)
MissingInOneStoreOnly ==
    \A i \in 1..Len(applied.plan.Results) :
        LET r == applied.plan.Results[i]
        IN  Incomplete(r) =>
                Cardinality({f \in {"DBPresent", "GamedataPresent", "StoragePresent"} : ~r[f]}) = 1

(* C18: from a universe in which every incomplete item misses from exactly *)
(* one store, a confirmed purge removes the incomplete items from every    *)
(* store and leaves the complete items in all three, and a following       *)
(* reconcile with DoPurge plans no action.                                 *)
C18_PurgeRoundTrip ==
    (Reloaded /\ applied.opts.DoPurge /\ MissingInOneStoreOnly) =>
        /\ \A i \in 1..Len(applied.plan.Results) :
              LET r == applied.plan.Results[i]
              IN  IF Incomplete(r)
                  THEN /\ r.ID \notin DOMAIN fcache.DBIndex
                       /\ r.ID \notin DOMAIN fcache.GDIndex
                       /\ r.ID \notin fcache.StorageSet
                  ELSE /\ r.ID \in DOMAIN fcache.DBIndex
                       /\ r.ID \in DOMAIN fcache.GDIndex
                       /\ r.ID \in fcache.StorageSet
        /\ (fpc = "planned" /\ fopts.DoPurge) => fplan.Actions = <<>>

(* C19: for every key that received a sync_db action, after the plan was   *)
(* applied without error a new reconciliation reports no mismatch for that *)
(* key.                                                                    *)
C19_SyncRoundTrip ==
    Reloaded =>
        \A i \in 1..Len(applied.plan.Actions) :
            LET a == applied.plan.Actions[i]
            IN  a.Type = ActionSyncDB =>
                    furnitureResult(a.Key, fcache.DBIndex, fcache.GDIndex,
                                    fcache.StorageSet).Mismatch = <<>>

(* C20: after an ApplyPlan run without error, the reloaded storage set     *)
(* holds none of the keys of the plan's delete_storage actions that were   *)
(* IDs obtained through the classname map.                                 *)
C20_DeletedStorageKeysGone ==
    Reloaded =>
        \A i \in 1..Len(applied.plan.Actions) :
            LET a == applied.plan.Actions[i]
            IN  (/\ a.Type = ActionDeleteStorage
                 /\ \E obj \in DOMAIN applied.keyOf :
                       applied.keyOf[obj] = a.Key /\ a.Key # RelPathNoExt(obj))
                    => a.Key \notin fcache.StorageSet

(***************************************************************************)
(* Properties of ApplyPlan's dispatch and of its results.                  *)
(***************************************************************************)
(* ApplyPlan ran past the safety check and past the Mutator probe. *)
GatedThrough ==
    pc = "applied" /\ opts.Confirmed /\ ~opts.DryRun /\ specAdapter.Mutator

(* The actions of one kind in the plan, in plan order. *)
ActionsOfKind(kind) == SelectSeq(plan.Actions, LAMBDA a : a.Type = kind)

(* The calls the claim describes for one kind: one batch call with every   *)
(* key if the adapter has the batch method, else one single-key call per   *)
(* action; none if the plan has no action of the kind.                     *)
CallsFor(kind, hasBatch, batchName, singleName) ==
    LET as == ActionsOfKind(kind)
    IN  IF as = <<>> THEN <<>>
        ELSE IF hasBatch
        THEN <<[method |-> batchName,
                keys |-> [j \in 1..Len(as) |-> as[j].Key],
                items |-> [j \in 1..Len(as) |-> as[j].GDItem]]>>
        ELSE [j \in 1..Len(as) |-> [method |-> singleName,
                                    keys |-> <<as[j].Key>>,
                                    items |-> <<as[j].GDItem>>]]

ExpectedCalls ==
    CallsFor("delete_db", specAdapter.DBBatch, "DeleteDBBatch", "DeleteDB")
    \o CallsFor("delete_gamedata", specAdapter.GDBatch, "DeleteGamedataBatch", "DeleteGamedata")
    \o CallsFor("delete_storage", specAdapter.StorageBatch, "DeleteStorageBatch", "DeleteStorage")
    \o CallsFor("sync_db", specAdapter.SyncBatch, "SyncDBBatch", "SyncDBFromGamedata")

IsPrefix(a, b) == Len(a) <= Len(b) /\ \A i \in 1..Len(a) : a[i] = b[i]

CarriedOut(a) ==
    IF a.Type = ActionDeleteDB THEN a.Key \in DOMAIN initial.db /\ a.Key \notin DOMAIN dbIndex
    ELSE IF a.Type = ActionDeleteGamedata
    THEN a.Key \in DOMAIN initial.gd /\ a.Key \notin DOMAIN gdIndex
    ELSE IF a.Type = ActionDeleteStorage THEN a.Key \in initial.st /\ a.Key \notin storageSet
    ELSE a.Key \in DOMAIN initial.mm /\ a.Key \notin DOMAIN mismatches

(* C22: when a mutation fails during ApplyPlan, the call returns an error  *)
(* and an executed count equal to the number of actions whose mutation was *)
(* carried out, on the per-key path and on the batch path.                 *)
C22_ExecutedCountsMutations ==
    (pc = "applied" /\ err # NoError) =>
        executed = Cardinality({i \in 1..Len(plan.Actions) : CarriedOut(plan.Actions[i])})

(* C28: the list ReconcileAll returns is strictly increasing in ID under   *)
(* the lexicographic order of strings, and it is the same list whatever    *)
(* the iteration order of the union of keys.                               *)
C28_ResultsSorted ==
    (pc = "reconciled") =>
        /\ \A i, j \in 1..Len(results) : i < j => StrLess(results[i].ID, results[j].ID)
        /\ \A order \in Orders(UsedUnion) :
              LET rs == [i \in 1..Len(order) |->
                            buildResult(order[i], used.DBIndex, used.GDIndex, used.StorageSet)]
              IN  {rs[i] : i \in 1..Len(rs)} = {results[i] : i \in 1..Len(results)}

C28_Witness ==
    /\ pc = "reconciled"
    /\ Len(results) >= 2
    /\ Len(results[1].ID) > Len(results[2].ID)

(* C29: in every plan Summary.PurgeActions is the number of delete_db,     *)
(* delete_gamedata and delete_storage actions, Summary.SyncActions is the  *)
(* number of sync_db actions, and their sum is len(Actions).               *)
C29_ActionCounts ==
    (pc \in {"planned", "applied"}) =>
        /\ plan.Summary.PurgeActions =
              Cardinality({i \in 1..Len(plan.Actions) : plan.Actions[i].Type \in DeleteTypes})
        /\ plan.Summary.SyncActions =
              Cardinality({i \in 1..Len(plan.Actions) : plan.Actions[i].Type = ActionSyncDB})
        /\ plan.Summary.PurgeActions + plan.Summary.SyncActions = Len(plan.Actions)

C29_Witness ==
    /\ pc = "planned"
    /\ plan.Summary.PurgeActions >= 2
    /\ plan.Summary.SyncActions >= 1

(* C30: with Confirmed=true and DryRun=false, ApplyPlan on an adapter that *)
(* does not implement Mutator returns executed=0 and an error, calls no    *)
(* mutation method and leaves the sources as they were, for every plan.    *)
C30_NoMutatorNoMutation ==
    (pc = "applied" /\ opts.Confirmed /\ ~opts.DryRun /\ ~specAdapter.Mutator) =>
        /\ executed = 0
        /\ err # NoError
        /\ calls = <<>>
        /\ World = initial

C30_Witness ==
    /\ pc = "applied"
    /\ opts.Confirmed /\ ~opts.DryRun /\ ~specAdapter.Mutator
    /\ plan.Actions # <<>>

(***************************************************************************)
(* The Mutator methods of the furniture adapter called directly, as the    *)
(* tests of the package do: SetMutationContext on an adapter that has or   *)
(* has not loaded the catalog, then one method call. SyncDBBatch runs as   *)
(* its pool of worker goroutines.                                          *)
(***************************************************************************)
Ok(w) == [w |-> w, err |-> NoError]

Failed(w, msg) == [w |-> w, err |-> msg]

(* mutations.go: DeleteDB *)
DeleteDB(w, key) ==
    IF ~AtoiOK(key) THEN Failed(w, "invalid key")
    ELSE Ok([w EXCEPT !.table = Restrict(@, (DOMAIN @) \ {Atoi(key)})])

(* mutations.go: DeleteGamedata *)
DeleteGamedata(w, key) ==
    IF ~AtoiOK(key) THEN Failed(w, "invalid key")
    ELSE Ok([w EXCEPT !.catalog = [room |-> Survivors(@.room, {Atoi(key)}),
                                   wall |-> Survivors(@.wall, {Atoi(key)})]])

(* mutations.go: DeleteStorage *)
DeleteStorage(w, key) ==
    IF key \notin DOMAIN idToClassname THEN Failed(w, "classname not found")
    ELSE Ok([w EXCEPT !.bucket = @ \ {ObjectKeyOf(idToClassname[key])}])

(* const numWorkers = 50 *)
numWorkers == 50

(* The keys the methods are called with: two IDs, a classname and a        *)
(* relative path.                                                          *)
MutationKeys == {<<"1">>, <<"2">>, <<"a">>, <<"s", "/", "a">>}

KeyLists ==
    {<<k>> : k \in MutationKeys}
        \cup {<<k1, k2>> : k1 \in {<<"1">>}, k2 \in MutationKeys \ {<<"1">>}}

(* A catalog object with a member the GDItem struct does not declare. *)
Described(obj) == [obj EXCEPT !.Extra = <<"description">>]

MutationCatalogs ==
    LET x == Described(Item(1, <<"a">>, <<"n">>, 1, FALSE))
        y == Item(2, <<"b">>, <<"n">>, 1, FALSE)
    IN  {[room |-> r, wall |-> w] : r \in {<<>>, <<x>>, <<y>>, <<x, y>>, <<y, x>>},
                                    w \in {<<>>, <<x>>}}

MutationBuckets ==
    SUBSET {ObjectKeyOf(<<"a">>), ObjectKeyOf(<<"1">>), ObjectKeyOf(<<"s", "/", "a">>)}

(* SetMutationContext *)
SetMutationContext ==
    batchConcurrency = IF dialect = "sqlite" THEN 1 ELSE 0

InitM ==
    /\ catalog \in MutationCatalogs
    /\ bucket \in MutationBuckets
    /\ table \in Tables
    /\ profile = "arcturus"
    /\ \E loaded \in BOOLEAN :
          LET m == IF loaded THEN PopulateMaps(catalog, <<>>, <<>>)
                   ELSE [index |-> <<>>, c2i |-> <<>>, i2c |-> <<>>]
          IN  /\ classnameToID = m.c2i
              /\ idToClassname = m.i2c
              /\ mappingReady = loaded
    /\ dialect \in {"sqlite", "mysql"}
    /\ SetMutationContext
    /\ mcall = Nil
    /\ actionsCh = <<>>
    /\ running = {}
    /\ exited = 0
    /\ errorCh = {}
    /\ fpc = "ready"
    /\ buildNo = 0
    /\ gdLoaded = Nil
    /\ dbLoaded = Nil
    /\ stPos = "done"
    /\ listed = {}
    /\ keyOf = <<>>
    /\ early = {}
    /\ fcache = Nil
    /\ fopts = [DryRun |-> FALSE, DoPurge |-> FALSE, DoSync |-> FALSE, Confirmed |-> FALSE]
    /\ fplan = NoPlan
    /\ ferr = NoError
    /\ applied = Nil
    /\ dbIndex = <<>> /\ gdIndex = <<>> /\ storageSet = {} /\ mismatches = <<>>
    /\ initial = [db |-> <<>>, gd |-> <<>>, st |-> {}, mm |-> <<>>]
    /\ InitCache
    /\ ttl = 0
    /\ pc = "off"
    /\ opts = [DryRun |-> FALSE, DoPurge |-> FALSE, DoSync |-> FALSE, Confirmed |-> FALSE]
    /\ results = <<>>
    /\ plan = NoPlan
    /\ used = Nil
    /\ cmpCalls = {}
    /\ executed = 0
    /\ err = NoError
    /\ calls = <<>>
    /\ specAdapter = Nil
    /\ CallersIdle
    /\ GoIdle
    /\ invalidated = NotInvalidated
    /\ EntryIdle

(* what one direct call leaves alone besides the stores *)
adapterVars ==
    <<profile, classnameToID, idToClassname, mappingReady, buildNo, gdLoaded, dbLoaded,
      stPos, listed, keyOf, early, fcache, fopts, fplan, applied>>

poolVars == <<dialect, batchConcurrency, actionsCh, running, exited, errorCh>>

(* One call that returns at once, with the stores and the error it leaves. *)
Returns(method, keys, r) ==
    /\ mcall' = [method |-> method, keys |-> keys, items |-> <<>>]
    /\ catalog' = r.w.catalog
    /\ bucket' = r.w.bucket
    /\ table' = r.w.table
    /\ ferr' = r.err
    /\ fpc' = "returned"
    /\ UNCHANGED <<invalidated, goVars, poolVars, entryVars, worldVars, cacheVars, pipeVars, callerVars, adapterVars>>

CallDeleteDB ==
    /\ fpc = "ready"
    /\ \E key \in MutationKeys : Returns("DeleteDB", <<key>>, DeleteDB(FurnitureWorld, key))

CallDeleteGamedata ==
    /\ fpc = "ready"
    /\ \E key \in MutationKeys :
          Returns("DeleteGamedata", <<key>>, DeleteGamedata(FurnitureWorld, key))

CallDeleteStorage ==
    /\ fpc = "ready"
    /\ \E key \in MutationKeys :
          Returns("DeleteStorage", <<key>>, DeleteStorage(FurnitureWorld, key))

CallDeleteDBBatch ==
    /\ fpc = "ready"
    /\ \E keys \in KeyLists :
          Returns("DeleteDBBatch", keys, Ok(DeleteDBBatch(FurnitureWorld, keys)))

CallDeleteGamedataBatch ==
    /\ fpc = "ready"
    /\ \E keys \in KeyLists :
          Returns("DeleteGamedataBatch", keys, Ok(DeleteGamedataBatch(FurnitureWorld, keys)))

CallDeleteStorageBatch ==
    /\ fpc = "ready"
    /\ \E keys \in KeyLists :
          Returns("DeleteStorageBatch", keys, Ok(DeleteStorageBatch(FurnitureWorld, keys)))

(* a channel made without a buffer *)
Unbuffered(actions) == 0

(* make(chan error, len(actions)) *)
errorChCap(actions) == Len(actions)

(* SyncDBBatch with no action returns nil at once *)
SyncDBBatchEmpty ==
    /\ fpc = "ready"
    /\ Returns("SyncDBBatch", <<>>, Ok(FurnitureWorld))

(* SyncDBBatch: the actions are put into the channel, the channel is       *)
(* closed and the workers are started. mcall.attempts counts the           *)
(* SyncDBFromGamedata calls made for each action.                          *)
SyncDBBatchStart ==
    /\ fpc = "ready"
    /\ \E keys \in KeyLists :
          /\ mcall' = [method |-> "SyncDBBatch", keys |-> keys,
                       items |-> [j \in 1..Len(keys) |->
                                     [Unmarshal(Item(j, <<"c">>, <<"m">>, 2, FALSE))
                                         EXCEPT !.Type = "s"]],
                       attempts |-> [j \in 1..Len(keys) |-> 0]]
          /\ actionsCh' = [j \in 1..Len(keys) |-> j]
    /\ fpc' = "syncing"
    /\ UNCHANGED <<invalidated, goVars, dialect, batchConcurrency, running, exited, errorCh, catalog, bucket, table,
                   ferr, entryVars, worldVars, cacheVars, pipeVars, callerVars, adapterVars>>

(* a worker receives the next action from the channel *)
WorkerReceive ==
    /\ fpc = "syncing"
    /\ actionsCh # <<>>
    /\ exited + Cardinality(running) < numWorkers
    /\ running' = running \cup {Head(actionsCh)}
    /\ actionsCh' = Tail(actionsCh)
    /\ UNCHANGED <<invalidated, goVars, dialect, batchConcurrency, mcall, exited, errorCh, catalog, bucket, table,
                   ferr, fpc, entryVars, worldVars, cacheVars, pipeVars, callerVars, adapterVars>>

(* a worker's SyncDBFromGamedata call returns; an error is sent to        *)
(* errorCh, which blocks while the channel is full                         *)
WorkerSync ==
    /\ fpc = "syncing"
    /\ \E j \in running :
          /\ SyncFails(FurnitureWorld, mcall.keys[j]) =>
                Cardinality(errorCh) < errorChCap(mcall.keys)
          /\ mcall' = [mcall EXCEPT !.attempts[j] = @ + 1]
          /\ table' = SyncDBFromGamedata(FurnitureWorld, mcall.keys[j], mcall.items[j],
                                         profile).table
          /\ errorCh' = IF SyncFails(FurnitureWorld, mcall.keys[j]) THEN errorCh \cup {j}
                        ELSE errorCh
          /\ running' = running \ {j}
    /\ UNCHANGED <<invalidated, goVars, dialect, batchConcurrency, actionsCh, exited, catalog, bucket,
                   ferr, fpc, entryVars, worldVars, cacheVars, pipeVars, callerVars, adapterVars>>

(* the workers that find the channel closed and empty return *)
WorkerExit ==
    /\ fpc = "syncing"
    /\ actionsCh = <<>>
    /\ exited + Cardinality(running) < numWorkers
    /\ exited' = numWorkers - Cardinality(running)
    /\ UNCHANGED <<invalidated, goVars, dialect, batchConcurrency, mcall, actionsCh, running, errorCh, catalog,
                   bucket, table, ferr, fpc, entryVars, worldVars, cacheVars, pipeVars,
                   callerVars, adapterVars>>

(* wg.Wait() returns and the errors are collected *)
SyncDBBatchReturn ==
    /\ fpc = "syncing"
    /\ exited = numWorkers
    /\ ferr' = IF errorCh # {} THEN "batch sync had errors" ELSE NoError
    /\ fpc' = "returned"
    /\ UNCHANGED <<invalidated, goVars, mutVars, catalog, bucket, table, entryVars, worldVars, cacheVars, pipeVars,
                   callerVars, adapterVars>>

NextM ==
    \/ CallDeleteDB
    \/ CallDeleteGamedata
    \/ CallDeleteStorage
    \/ CallDeleteDBBatch
    \/ CallDeleteGamedataBatch
    \/ CallDeleteStorageBatch
    \/ SyncDBBatchEmpty
    \/ SyncDBBatchStart
    \/ WorkerReceive
    \/ WorkerSync
    \/ WorkerExit
    \/ SyncDBBatchReturn

SpecMutations == InitM /\ [][NextM]_vars

(* C23: with a SQLite database SyncDBBatch runs at most one                *)
(* SyncDBFromGamedata at a time; with another database at most 50.         *)
C23_SqliteOneWorker ==
    /\ dialect = "sqlite" => Cardinality(running) <= 1
    /\ Cardinality(running) <= 50

(* the direct call `method` returns in this step *)
Returning(methods) == fpc = "ready" /\ fpc' = "returned" /\ mcall'.method \in methods

(* C24: DeleteGamedata and DeleteGamedataBatch remove from both sections   *)
(* of the catalog exactly the objects whose ID is among the keys and write *)
(* every other object back unchanged, in the same order, with every member *)
(* it had.                                                                 *)
C24_GamedataDeleteKeepsOthers ==
    [][(Returning({"DeleteGamedata", "DeleteGamedataBatch"}) /\ ferr' = NoError) =>
          LET ids == IdsOf(mcall'.keys)
          IN  /\ catalog'.room = SelectSeq(catalog.room, LAMBDA obj : obj.ID \notin ids)
              /\ catalog'.wall = SelectSeq(catalog.wall, LAMBDA obj : obj.ID \notin ids)]_vars

(* the object the claim names for a key *)
CanonicalObject(key) ==
    IF AtoiOK(key) /\ key \in DOMAIN idToClassname
    THEN StoragePrefix \o <<"/">> \o idToClassname[key] \o StorageExtension
    ELSE StoragePrefix \o <<"/">> \o key \o StorageExtension

(* C25: delete_storage removes <prefix>/<classname><extension> for a       *)
(* numeric key that maps to a classname and <prefix>/<key><extension>      *)
(* otherwise; DeleteStorage and DeleteStorageBatch with the one key remove *)
(* the same object and both succeed or both fail.                          *)
C25_StorageDeleteAgrees ==
    [][(Returning({"DeleteStorage", "DeleteStorageBatch"}) /\ Len(mcall'.keys) = 1) =>
          /\ bucket' = bucket \ {CanonicalObject(mcall'.keys[1])}
          /\ ferr' = NoError]_vars

(***************************************************************************)
(* The command `reconcile furniture`: a new adapter, SetMutationContext if *)
(* --purge or --sync is given, Prepare, ReconcileWithPlan (the BuildCache  *)
(* steps above), the report, and ApplyPlan after the confirmation.         *)
(* `profile` is cfg.Server.Emulator.                                       *)
(***************************************************************************)
Flags == [purge : BOOLEAN, sync : BOOLEAN, dryRun : BOOLEAN, yes : BOOLEAN]

(* GetProfileByName(name).TableName; an unknown name is Arcturus *)
TableName(name) == IF name \in {"comet", "plus"} THEN "furniture" ELSE "items_base"

(* a.serverProfile when Prepare runs: set by SetMutationContext only *)
AdapterProfile == IF flags.purge \/ flags.sync THEN profile ELSE ""

NameColumns == {"item_name", "public_name"}

InitCmd ==
    /\ \E x \in {1, 2} : catalog = [room |-> <<Item(1, <<"a">>, <<"n">>, x, FALSE)>>, wall |-> <<>>]
    /\ bucket \in {{}, {ObjectKeyOf(<<"a">>)}}
    /\ table \in {<<>>, [id \in {1} |-> Row(1, <<"a">>, <<"n">>, 1, FALSE, "s")]}
    /\ profile \in Profiles
    /\ flags \in Flags
    /\ \E size \in {100, 255} : schema = [c \in NameColumns |-> size]
    /\ ddl = <<>>
    /\ handle = "open"
    /\ query = Nil
    /\ outcome = Nil
    /\ NewAdapter
    /\ MutationIdle
    /\ fpc = "cmd"
    /\ buildNo = 0
    /\ gdLoaded = Nil
    /\ dbLoaded = Nil
    /\ stPos = "done"
    /\ listed = {}
    /\ keyOf = <<>>
    /\ early = {}
    /\ fcache = Nil
    /\ fopts = [DryRun |-> FALSE, DoPurge |-> FALSE, DoSync |-> FALSE, Confirmed |-> FALSE]
    /\ fplan = NoPlan
    /\ ferr = NoError
    /\ applied = Nil
    /\ dbIndex = <<>> /\ gdIndex = <<>> /\ storageSet = {} /\ mismatches = <<>>
    /\ initial = [db |-> table, gd |-> catalog, st |-> bucket, schema |-> schema]
    /\ InitCache
    /\ ttl = 0
    /\ pc = "off"
    /\ opts = [DryRun |-> FALSE, DoPurge |-> FALSE, DoSync |-> FALSE, Confirmed |-> FALSE]
    /\ results = <<>>
    /\ plan = NoPlan
    /\ used = Nil
    /\ cmpCalls = {}
    /\ executed = 0
    /\ err = NoError
    /\ calls = <<>>
    /\ specAdapter = Nil
    /\ CallersIdle
    /\ GoIdle
    /\ invalidated = NotInvalidated

buildVars == <<buildNo, gdLoaded, dbLoaded, stPos, listed, keyOf, early, fcache>>

(* Step 0, adapter.Prepare: ALTER TABLE ... MODIFY COLUMN ... VARCHAR(120) *)
(* for item_name and public_name on the table of the adapter's profile;    *)
(* the statement fails if the database has no such table.                  *)
CmdPrepare ==
    /\ fpc = "cmd"
    /\ IF TableName(AdapterProfile) = TableName(profile)
       THEN /\ schema' = [c \in NameColumns |-> 120]
            /\ ddl' = ddl \o <<[table |-> TableName(AdapterProfile), column |-> "item_name"],
                               [table |-> TableName(AdapterProfile), column |-> "public_name"]>>
            /\ fpc' = "idle"
            /\ ferr' = ferr
       ELSE /\ ferr' = "failed to prepare schema"
            /\ fpc' = "done"
            /\ UNCHANGED <<invalidated, goVars, schema, ddl>>
    /\ UNCHANGED <<invalidated, goVars, mutVars, flags, handle, query, outcome, worldVars, cacheVars, pipeVars,
                   callerVars, catalog, bucket, table, profile, classnameToID, idToClassname,
                   mappingReady, buildVars, fopts, fplan, applied>>

(* Step 1, ReconcileWithPlan with the options built from the flags. *)
CmdPlan ==
    /\ fpc = "built"
    /\ LET o == [DoPurge |-> flags.purge, DoSync |-> flags.sync, DryRun |-> flags.dryRun,
                 Confirmed |-> FALSE]
           rs == furnitureResults(fcache)
           b == buildPlanFromResults(rs, fcache, o)
       IN  /\ fopts' = o
           /\ fplan' = [Results |-> rs, Actions |-> b.Actions, Summary |-> b.Summary]
    /\ fpc' = "planned"
    /\ UNCHANGED <<invalidated, goVars, mutVars, entryVars, worldVars, cacheVars, pipeVars, callerVars, catalog,
                   bucket, table, profile, classnameToID, idToClassname, mappingReady,
                   buildVars, ferr, applied>>

(* Steps 3 and 4: return if no action is requested, if --dry-run is given, *)
(* if the plan is empty or if the user does not confirm; else ApplyPlan.   *)
CmdApply ==
    /\ fpc = "planned"
    /\ \E answer \in BOOLEAN, bad \in 0..Len(fplan.Actions) :
        LET confirmed == flags.yes \/ answer
            applies == /\ flags.purge \/ flags.sync
                       /\ ~flags.dryRun
                       /\ Len(fplan.Actions) # 0
                       /\ confirmed
            o == [fopts EXCEPT !.Confirmed = TRUE]
            r == ApplyPlan(fplan, o, FurnitureAdapter, bad,
                           [db |-> <<>>, gd |-> <<>>, st |-> {}, mm |-> <<>>])
            badKey == IF bad = 0 THEN Nil ELSE fplan.Actions[bad].Key
            w == FurnitureCalls(FurnitureWorld, r.calls, r.err # NoError, badKey, profile)
        IN  IF applies
            THEN /\ fopts' = o
                 /\ ferr' = r.err
                 /\ catalog' = w.catalog
                 /\ bucket' = w.bucket
                 /\ table' = w.table
                 /\ applied' = [plan |-> fplan, opts |-> o, keyOf |-> keyOf]
            ELSE /\ bad = 0
                 /\ UNCHANGED <<invalidated, goVars, fopts, ferr, catalog, bucket, table, applied>>
    /\ fpc' = "done"
    /\ UNCHANGED <<invalidated, goVars, mutVars, entryVars, worldVars, cacheVars, pipeVars, callerVars, profile,
                   classnameToID, idToClassname, mappingReady, buildVars, fplan>>

NextCmd ==
    \/ CmdPrepare
    \/ StartBuild
    \/ LoadGamedataIndex
    \/ LoadDB
    \/ LoadStorageSetList
    \/ LoadStorageSetExtract
    \/ LoadStorageSetDone
    \/ FurnitureBuildDone
    \/ CmdPlan
    \/ CmdApply

SpecCmd == InitCmd /\ [][NextCmd]_vars

(* the run may not change anything *)
ReportOnly == flags.dryRun \/ (~flags.purge /\ ~flags.sync)

(* C26: a run of `reconcile furniture` with --dry-run, or with neither     *)
(* --purge nor --sync, performs no mutating operation on the database      *)
(* (rows or schema), on the catalog or on storage, whatever the other      *)
(* flags.                                                                  *)
C26_ReportOnlyMutatesNothing ==
    ReportOnly =>
        /\ ddl = <<>>
        /\ schema = initial.schema
        /\ table = initial.db
        /\ catalog = initial.gd
        /\ bucket = initial.st

(***************************************************************************)
(* The reconcile entry points called with the furniture adapter and a db   *)
(* handle that may be nil: ReconcileAll and ReconcileWithPlan after the    *)
(* BuildCache steps above, ReconcileOne from the cache (CacheTTL > 0) or   *)
(* by targeted queries (CacheTTL = 0).                                     *)
(***************************************************************************)
Queries == [ID : {<<>>, <<"1">>, <<"2">>, <<"x">>, <<"a">>}, Classname : {<<>>, <<"a">>}, Name : {<<>>, <<"n">>}]

(* The bytes of the keys, in ascending order. *)
Bytes ==
    <<"+", "-", ".", "/", "0", "1", "2", "3", "4", "5", "6", "7", "8", "9", "_",
      "a", "b", "c", "d", "e", "f", "g", "h", "i", "j", "k", "l", "m",
      "n", "o", "p", "q", "r", "s", "t", "u", "v", "w", "x", "y", "z">>

ByteOf(ch) == CHOOSE i \in 1..Len(Bytes) : Bytes[i] = ch

(* sort.Slice(results, results[i].ID < results[j].ID) of ReconcileAll, on  *)
(* keys that are strings of bytes                                          *)
RECURSIVE SortResults(_)
SortResults(rs) ==
    IF rs = <<>> THEN <<>>
    ELSE LET less(a, b) == StrLess([i \in 1..Len(a) |-> ByteOf(a[i])],
                                   [i \in 1..Len(b) |-> ByteOf(b[i])])
             rest == SortResults(Tail(rs))
             before == SelectSeq(rest, LAMBDA r : ~less(Head(rs).ID, r.ID))
             after == SelectSeq(rest, LAMBDA r : less(Head(rs).ID, r.ID))
         IN  before \o <<Head(rs)>> \o after

(* parseDBRow: the DBItem QueryDB makes of a row; unlike LoadDBIndex it    *)
(* does not read the type column.                                          *)
parseDBRow(row, prof) == [RowItem(row, prof) EXCEPT !.Type = ""]

(* QueryDB reaches a db.WithContext(ctx) call *)
QueryDBTouches(q) == (q.ID # <<>> /\ AtoiOK(q.ID)) \/ q.Classname # <<>> \/ q.Name # <<>>

(* QueryDB on an open handle: the rows a lookup may Take, by id, then by   *)
(* item_name, then by public_name; Nil if none matches.                    *)
QueryDB(tbl, prof, q) ==
    LET rows == {tbl[k] : k \in DOMAIN tbl}
        byID == IF q.ID # <<>> /\ AtoiOK(q.ID) THEN {r \in rows : r.id = Atoi(q.ID)} ELSE {}
        byClassname == IF q.Classname # <<>> THEN {r \in rows : r.item_name = q.Classname}
                       ELSE {}
        byName == IF q.Name # <<>> THEN {r \in rows : r.public_name = q.Name} ELSE {}
        found == IF byID # {} THEN byID ELSE IF byClassname # {} THEN byClassname ELSE byName
    IN  IF found = {} THEN {Nil} ELSE {parseDBRow(r, prof) : r \in found}

(* QueryGamedata on the index LoadGamedataIndex returned: by ID, else any  *)
(* item whose classname or name matches.                                   *)
QueryGamedata(index, q) ==
    LET items == {index[k] : k \in DOMAIN index}
        match == {it \in items : \/ q.Classname # <<>> /\ it.ClassName = q.Classname
                                 \/ q.Name # <<>> /\ it.Name = q.Name}
    IN  IF q.ID # <<>> /\ q.ID \in DOMAIN index THEN {index[q.ID]}
        ELSE IF match # {} THEN match
        ELSE {Nil}

(* CheckStorage: the object named after the classname the key maps to, or  *)
(* after the key                                                           *)
CheckStorage(key, i2c) ==
    LET filename == IF key \in DOMAIN i2c THEN i2c[key] ELSE key
    IN  (StoragePrefix \o <<"/">> \o filename \o StorageExtension) \in bucket

(* findKeyFromQuery: the keys it may return, <<>> for "" *)
findKeyFromQuery(q, db, gd) ==
    LET named == {q.Name, q.Classname} \ {<<>>}
    IN  IF q.ID # <<>> /\ q.ID \in (DOMAIN db) \cup (DOMAIN gd) THEN {q.ID}
        ELSE IF named \cap DOMAIN db # {} THEN named \cap DOMAIN db
        ELSE IF named \cap DOMAIN gd # {} THEN named \cap DOMAIN gd
        ELSE {<<>>}

NotFound(q) ==
    [ID |-> q.ID, Name |-> <<>>, Metadata |-> <<>>, DBPresent |-> FALSE,
     GamedataPresent |-> FALSE, StoragePresent |-> FALSE, Mismatch |-> <<>>]

(* ReconcileOne, the path of targeted queries after both queries returned *)
ReconcileOneResult(dbItem, gdItem, q, i2c) ==
    LET key == IF dbItem # Nil THEN Itoa(dbItem.SpriteID)
               ELSE IF gdItem # Nil THEN Itoa(gdItem.ID)
               ELSE q.ID
    IN  [ID |-> key,
         Name |-> IF dbItem # Nil THEN dbItem.PublicName
                  ELSE IF gdItem # Nil THEN gdItem.Name ELSE <<>>,
         Metadata |-> IF gdItem # Nil /\ gdItem.ClassName # <<>> THEN gdItem.ClassName
                      ELSE IF dbItem # Nil THEN dbItem.ItemName ELSE <<>>,
         DBPresent |-> dbItem # Nil,
         GamedataPresent |-> gdItem # Nil,
         StoragePresent |-> key # <<>> /\ CheckStorage(key, i2c),
         Mismatch |-> IF dbItem # Nil /\ gdItem # Nil
                      THEN FurnitureCompareFields(dbItem, gdItem) ELSE <<>>]

InitQ ==
    /\ catalog \in {[room |-> <<>>, wall |-> <<>>]}
                   \cup {[room |-> <<Item(id, <<"a">>, <<"n">>, x, FALSE)>>, wall |-> <<>>] :
                            id \in {1, 2}, x \in {1, 2}}
                   \cup {[room |-> <<>>, wall |-> <<Item(1, <<"a">>, <<"n">>, 1, FALSE)>>]}
    /\ bucket \in {{}, {ObjectKeyOf(<<"a">>)}}
    /\ table \in {<<>>}
                 \cup {[sprite \in {1} |-> [Row(1, <<"a">>, <<"n">>, 1, FALSE, type) EXCEPT !.id = id]] :
                          id \in {1, 2}, type \in {"s", "i"}}
    /\ profile = "arcturus"
    /\ handle \in {"nil", "open"}
    /\ flags = [purge |-> FALSE, sync |-> FALSE, dryRun |-> FALSE, yes |-> FALSE]
    /\ schema = <<>>
    /\ ddl = <<>>
    /\ query = Nil
    /\ outcome = Nil
    /\ NewAdapter
    /\ MutationIdle
    /\ fpc = "idle"
    /\ buildNo = 0
    /\ gdLoaded = Nil
    /\ dbLoaded = Nil
    /\ stPos = "done"
    /\ listed = {}
    /\ keyOf = <<>>
    /\ early = {}
    /\ fcache = Nil
    /\ fopts = [DryRun |-> FALSE, DoPurge |-> FALSE, DoSync |-> FALSE, Confirmed |-> FALSE]
    /\ fplan = NoPlan
    /\ ferr = NoError
    /\ applied = Nil
    /\ dbIndex = <<>> /\ gdIndex = <<>> /\ storageSet = {} /\ mismatches = <<>>
    /\ initial = [db |-> <<>>, gd |-> <<>>, st |-> {}, mm |-> <<>>]
    /\ InitCache
    /\ pc = "off"
    /\ opts = [DryRun |-> FALSE, DoPurge |-> FALSE, DoSync |-> FALSE, Confirmed |-> FALSE]
    /\ results = <<>>
    /\ plan = NoPlan
    /\ used = Nil
    /\ cmpCalls = {}
    /\ executed = 0
    /\ err = NoError
    /\ calls = <<>>
    /\ specAdapter = Nil
    /\ CallersIdle
    /\ GoIdle
    /\ invalidated = NotInvalidated

(* an entry point returns `rs`, or panics *)
Outcome(op, q, rs, panic) ==
    /\ query' = q
    /\ outcome' = [op |-> op, results |-> rs, err |-> NoError, panic |-> panic]
    /\ fpc' = "returned"
    /\ UNCHANGED <<invalidated, goVars, mutVars, flags, schema, ddl, handle, worldVars, cacheVars, pipeVars,
                   callerVars, catalog, bucket, table, profile, mappingReady, buildVars,
                   fopts, fplan, ferr, applied>>

(* ReconcileAll on the record BuildCache returned *)
QReconcileAll ==
    /\ fpc = "built"
    /\ Outcome("ReconcileAll", Nil, SortResults(furnitureResults(fcache)), FALSE)
    /\ UNCHANGED <<invalidated, goVars, classnameToID, idToClassname>>

(* ReconcileWithPlan on the record GetOrBuildCache returned *)
QReconcileWithPlan ==
    /\ fpc = "built"
    /\ Outcome("ReconcileWithPlan", Nil, furnitureResults(fcache), FALSE)
    /\ UNCHANGED <<invalidated, goVars, classnameToID, idToClassname>>

(* ReconcileOne with spec.CacheTTL > 0 *)
QReconcileOneCached ==
    /\ fpc = "built"
    /\ ttl > 0
    /\ \E q \in Queries :
        \E key \in findKeyFromQuery(q, fcache.DBIndex, fcache.GDIndex) :
            Outcome("ReconcileOne", q,
                    IF key = <<>> THEN <<NotFound(q)>>
                    ELSE <<furnitureResult(key, fcache.DBIndex, fcache.GDIndex,
                                           fcache.StorageSet)>>,
                    FALSE)
    /\ UNCHANGED <<invalidated, goVars, classnameToID, idToClassname>>

(* ReconcileOne with spec.CacheTTL = 0: QueryDB, QueryGamedata (which      *)
(* loads the catalog into the adapter's maps), CheckStorage. A QueryDB     *)
(* that calls a method of the nil handle dereferences a nil pointer.       *)
QReconcileOneDirect ==
    /\ fpc = "idle"
    /\ ttl = 0
    /\ \E q \in Queries :
        IF handle = "nil" /\ QueryDBTouches(q)
        THEN /\ Outcome("ReconcileOne", q, <<>>, TRUE)
             /\ UNCHANGED <<invalidated, goVars, classnameToID, idToClassname>>
        ELSE LET m == PopulateMaps(catalog, classnameToID, idToClassname)
             IN  /\ classnameToID' = m.c2i
                 /\ idToClassname' = m.i2c
                 /\ \E dbItem \in (IF handle = "nil" THEN {Nil} ELSE QueryDB(table, profile, q)),
                       gdItem \in QueryGamedata(m.index, q) :
                       Outcome("ReconcileOne", q,
                               <<ReconcileOneResult(dbItem, gdItem, q, m.i2c)>>, FALSE)

NextQ ==
    \/ StartBuild
    \/ LoadGamedataIndex
    \/ LoadDB
    \/ LoadStorageSetList
    \/ LoadStorageSetExtract
    \/ LoadStorageSetDone
    \/ FurnitureBuildDone
    \/ QReconcileAll
    \/ QReconcileWithPlan
    \/ QReconcileOneCached
    \/ QReconcileOneDirect

SpecQuery == InitQ /\ [][NextQ]_vars

(* C27: with the database handle absent, ReconcileAll, ReconcileWithPlan   *)
(* and ReconcileOne (with and without cache) return without error and      *)
(* without crashing, and every result has DBPresent = false.               *)
C27_NilDBIsAbsence ==
    (handle = "nil" /\ fpc = "returned") =>
        /\ ~outcome.panic
        /\ outcome.err = NoError
        /\ \A i \in 1..Len(outcome.results) : ~outcome.results[i].DBPresent

(***************************************************************************)
(* FurnitureAdapter.Prepare called in succession on one database. The      *)
(* database holds the furniture table of the emulator `profile`, with the  *)
(* two name columns declared VARCHAR(schema[c]); the adapter looks the     *)
(* table up under a.serverProfile. `outcome` is the list of what each call *)
(* returned and the schema it left.                                        *)
(***************************************************************************)
PrepareCalls == 2

ColumnSizes == {50, 120, 255}

(* db.Exec of `ALTER TABLE t MODIFY COLUMN c VARCHAR(120)`: SQLite has no  *)
(* MODIFY COLUMN, and MySQL fails on a table that does not exist.          *)
ExecFails(t) == dialect = "sqlite" \/ t # TableName(profile)

InitPrepare ==
    /\ catalog = [room |-> <<>>, wall |-> <<>>]
    /\ bucket = {}
    /\ table = <<>>
    /\ profile \in Profiles
    /\ flags \in Flags
    /\ schema \in [NameColumns -> ColumnSizes]
    /\ ddl = <<>>
    /\ handle = "open"
    /\ query = Nil
    /\ outcome = <<>>
    /\ NewAdapter
    /\ dialect \in {"mysql", "sqlite"}
    /\ batchConcurrency = 0
    /\ mcall = Nil
    /\ actionsCh = <<>>
    /\ running = {}
    /\ exited = 0
    /\ errorCh = {}
    /\ fpc = "prepare"
    /\ buildNo = 0
    /\ gdLoaded = Nil
    /\ dbLoaded = Nil
    /\ stPos = "done"
    /\ listed = {}
    /\ keyOf = <<>>
    /\ early = {}
    /\ fcache = Nil
    /\ fopts = [DryRun |-> FALSE, DoPurge |-> FALSE, DoSync |-> FALSE, Confirmed |-> FALSE]
    /\ fplan = NoPlan
    /\ ferr = NoError
    /\ applied = Nil
    /\ dbIndex = <<>> /\ gdIndex = <<>> /\ storageSet = {} /\ mismatches = <<>>
    /\ initial = [db |-> table, gd |-> catalog, st |-> bucket, schema |-> schema]
    /\ InitCache
    /\ ttl = 0
    /\ pc = "off"
    /\ opts = [DryRun |-> FALSE, DoPurge |-> FALSE, DoSync |-> FALSE, Confirmed |-> FALSE]
    /\ results = <<>>
    /\ plan = NoPlan
    /\ used = Nil
    /\ cmpCalls = {}
    /\ executed = 0
    /\ err = NoError
    /\ calls = <<>>
    /\ specAdapter = Nil
    /\ CallersIdle
    /\ GoIdle
    /\ invalidated = NotInvalidated

(* One call of Prepare: the statements in the order item_name, public_name, *)
(* returning at the first one that fails.                                   *)
Prepare ==
    /\ fpc = "prepare"
    /\ Len(outcome) < PrepareCalls
    /\ LET t == TableName(AdapterProfile)
           after == IF ExecFails(t) THEN schema ELSE [c \in NameColumns |-> 120]
           issued == IF ExecFails(t) THEN <<[table |-> t, column |-> "item_name"]>>
                     ELSE <<[table |-> t, column |-> "item_name"],
                            [table |-> t, column |-> "public_name"]>>
       IN  /\ schema' = after
           /\ ddl' = ddl \o issued
           /\ outcome' = Append(outcome,
                                [err |-> IF ExecFails(t) THEN "failed to prepare schema"
                                         ELSE NoError,
                                 schema |-> after])
    /\ UNCHANGED <<invalidated, goVars, mutVars, flags, handle, query, worldVars, cacheVars, pipeVars,
                   callerVars, furnVars>>

NextPrepare == Prepare

SpecPrepare == InitPrepare /\ [][NextPrepare]_vars

(* C31: Prepare run twice in succession on any initial schema leaves the   *)
(* same schema after the second call as after the first, and each call     *)
(* succeeds.                                                               *)
C31_PrepareIdempotent ==
    Len(outcome) = 2 =>
        /\ outcome[2].schema = outcome[1].schema
        /\ outcome[1].err = NoError
        /\ outcome[2].err = NoError

(* C32: under a server profile without a mapping for a logical field (plus *)
(* has no can_lay column), CompareFields reports no mismatch for that      *)
(* field, whatever the catalog says.                                       *)
C32_UnmappedFieldSkipped ==
    (fpc = "planned" /\ "can_lay" \notin ProfileColumns(profile)) =>
        \A i \in 1..Len(fplan.Results) :
            \A j \in 1..Len(fplan.Results[i].Mismatch) :
                fplan.Results[i].Mismatch[j] # "can_lay"

(* the fields of a result that C33 and C34 compare *)
Reported(r) ==
    [ID |-> r.ID, DBPresent |-> r.DBPresent, GamedataPresent |-> r.GamedataPresent,
     StoragePresent |-> r.StoragePresent, Mismatch |-> r.Mismatch]

(* C33: with CacheTTL > 0, ReconcileOne for a query whose ID is a key of   *)
(* the cached DB index, gamedata index or storage set returns the ID, the  *)
(* presence flags and the mismatch list that ReconcileAll reports for that *)
(* key; a key present only in storage has StoragePresent = true.           *)
C33_CachedOneAgreesWithAll ==
    (/\ fpc = "returned"
     /\ outcome.op = "ReconcileOne"
     /\ ttl > 0
     /\ query.ID \in buildUnion(fcache.DBIndex, fcache.GDIndex, fcache.StorageSet)) =>
        LET all == SortResults(furnitureResults(fcache))
        IN  \E i \in 1..Len(all) :
                /\ all[i].ID = query.ID
                /\ Reported(outcome.results[1]) = Reported(all[i])

(* what ReconcileAll reports for key k on the stores as they are, the     *)
(* adapter's maps being those of the catalog                               *)
AllReports(k) ==
    LET extracted == {ExtractStorageKey(obj, StoragePrefix, StorageExtension) : obj \in bucket}
    IN  furnitureResult(k, LoadDBIndex(table, profile),
                        PopulateMaps(catalog, <<>>, <<>>).index,
                        {e.key : e \in {x \in extracted : x.ok}})

(* C34: with CacheTTL = 0, ReconcileOne with query ID = k finds the row by *)
(* its sprite_id: if the result is present in the database and in the      *)
(* catalog, the row's sprite_id (the result's ID) is the catalog item's ID *)
(* k, and the flags and the mismatch list are those ReconcileAll reports   *)
(* for k, wall items included.                                             *)
C34_DirectOneAgreesWithAll ==
    (/\ fpc = "returned"
     /\ outcome.op = "ReconcileOne"
     /\ ttl = 0
     /\ ~outcome.panic
     /\ AtoiOK(query.ID) /\ query.Classname = <<>> /\ query.Name = <<>>) =>
        LET r == outcome.results[1]
        IN  /\ (r.DBPresent /\ r.GamedataPresent) => r.ID = query.ID
            /\ Reported(r) = Reported(AllReports(query.ID))

(***************************************************************************)
(* BuildCache calls that share one furniture adapter, each with its three  *)
(* goroutines. gor[<<b, "main">>] is BuildCache call b, gor[<<b, "gd">>],  *)
(* gor[<<b, "db">>] and gor[<<b, "st">>] its LoadGamedataIndex,            *)
(* LoadDBIndex and LoadStorageSet. a.mappingReady is a channel: FALSE is   *)
(* open, TRUE is closed; closing a closed channel panics.                  *)
(***************************************************************************)
NumBuildCalls == 2

BuildCalls == 1..NumBuildCalls

Roles == {"main", "gd", "db", "st"}

At(b, role, pos) == gor[<<b, role>>].pc = pos

Goto(b, role, pos, e, v) ==
    gor' = [gor EXCEPT ![<<b, role>>] = [pc |-> pos, err |-> e, val |-> v]]

InitSignal ==
    /\ catalog = [room |-> <<Item(1, <<"a">>, <<"n">>, 1, FALSE)>>, wall |-> <<>>]
    /\ bucket \in {{}, {ObjectKeyOf(<<"a">>)}}
    /\ table = <<>>
    /\ profile = "arcturus"
    /\ NewAdapter
    /\ gor = [g \in BuildCalls \X Roles |-> [pc |-> "idle", err |-> NoError, val |-> Nil]]
    /\ mu = {}
    /\ closes = 0
    /\ ctxDone = FALSE
    /\ timers = {}
    /\ invalidated = NotInvalidated
    /\ MutationIdle
    /\ EntryIdle
    /\ fpc = "off"
    /\ buildNo = 0
    /\ gdLoaded = Nil
    /\ dbLoaded = Nil
    /\ stPos = "done"
    /\ listed = {}
    /\ keyOf = <<>>
    /\ early = {}
    /\ fcache = Nil
    /\ fopts = [DryRun |-> FALSE, DoPurge |-> FALSE, DoSync |-> FALSE, Confirmed |-> FALSE]
    /\ fplan = NoPlan
    /\ ferr = NoError
    /\ applied = Nil
    /\ dbIndex = <<>> /\ gdIndex = <<>> /\ storageSet = {} /\ mismatches = <<>>
    /\ initial = [db |-> <<>>, gd |-> <<>>, st |-> {}, mm |-> <<>>]
    /\ InitCache
    /\ ttl = 0
    /\ pc = "off"
    /\ opts = [DryRun |-> FALSE, DoPurge |-> FALSE, DoSync |-> FALSE, Confirmed |-> FALSE]
    /\ results = <<>>
    /\ plan = NoPlan
    /\ used = Nil
    /\ cmpCalls = {}
    /\ executed = 0
    /\ err = NoError
    /\ calls = <<>>
    /\ specAdapter = Nil
    /\ cpc = [c \in Callers |-> "off"]
    /\ cop = [c \in Callers |-> "none"]
    /\ clocal = [c \in Callers |-> Nil]
    /\ cpart = [c \in Callers |-> Nil]
    /\ sfCall = 0
    /\ sfJoined = {}
    /\ sfDone = [c \in Callers |-> Nil]
    /\ cret = [c \in Callers |-> Nil]

(* what the goroutines leave alone *)
restVars ==
    <<invalidated, mutVars, entryVars, worldVars, cacheVars, pipeVars, callerVars, catalog, bucket, table,
      profile, fpc, buildNo, gdLoaded, dbLoaded, stPos, listed, keyOf, early, fcache, fopts,
      fplan, ferr, applied>>

(* BuildCache: wg.Add(3) and the three go statements. LoadDBIndex shares   *)
(* nothing with the other two goroutines and the table does not change:    *)
(* its result is taken here.                                               *)
BuildCacheStart(b) ==
    /\ At(b, "main", "idle")
    /\ gor' = [gor EXCEPT ![<<b, "main">>].pc = "wait",
                          ![<<b, "gd">>].pc = "fetch",
                          ![<<b, "db">>] = [pc |-> "done", err |-> NoError,
                                           val |-> LoadDBIndex(table, profile)],
                          ![<<b, "st">>].pc = "select"]
    /\ UNCHANGED <<restVars, classnameToID, idToClassname, mappingReady, mu, closes, ctxDone,
                   timers>>

(* LoadGamedataIndex: GetObject, ReadAll and Unmarshal, any of which may   *)
(* return an error                                                         *)
GdFetch(b) ==
    /\ At(b, "gd", "fetch")
    /\ \/ Goto(b, "gd", "lock", NoError, Nil)
       \/ Goto(b, "gd", "done", "failed to get gamedata object", Nil)
    /\ UNCHANGED <<restVars, classnameToID, idToClassname, mappingReady, mu, closes, ctxDone,
                   timers>>

(* a.mu.Lock() returns without the mutex (the adapter with its lock removed) *)
GdLockFree(b) ==
    /\ At(b, "gd", "lock")
    /\ mu' = mu \cup {<<b, "gd">>}
    /\ Goto(b, "gd", "locked", NoError, Nil)
    /\ UNCHANGED <<restVars, classnameToID, idToClassname, mappingReady, closes, ctxDone,
                   timers>>

(* LoadGamedataIndex: a.mu.Lock() *)
GdLock(b) ==
    /\ mu = {}
    /\ GdLockFree(b)

(* LoadGamedataIndex under the lock: the two loops, and the select that    *)
(* finds a.mappingReady closed or still open                               *)
GdPopulate(b) ==
    /\ At(b, "gd", "locked")
    /\ LET r == PopulateMaps(catalog, classnameToID, idToClassname)
       IN  /\ classnameToID' = r.c2i
           /\ idToClassname' = r.i2c
           /\ Goto(b, "gd", IF mappingReady THEN "unlock" ELSE "close", NoError, r.index)
    /\ UNCHANGED <<restVars, mappingReady, mu, closes, ctxDone, timers>>

(* LoadGamedataIndex: close(a.mappingReady) in the default case of the     *)
(* select                                                                  *)
GdClose(b) ==
    /\ At(b, "gd", "close")
    /\ closes' = closes + 1
    /\ mappingReady' = TRUE
    /\ Goto(b, "gd", IF mappingReady THEN "panic" ELSE "unlock", NoError, gor[<<b, "gd">>].val)
    /\ UNCHANGED <<restVars, classnameToID, idToClassname, mu, ctxDone, timers>>

(* LoadGamedataIndex returns; the deferred a.mu.Unlock() *)
GdUnlock(b) ==
    /\ At(b, "gd", "unlock")
    /\ mu' = mu \ {<<b, "gd">>}
    /\ Goto(b, "gd", "done", NoError, gor[<<b, "gd">>].val)
    /\ UNCHANGED <<restVars, classnameToID, idToClassname, mappingReady, closes, ctxDone,
                   timers>>

(* LoadStorageSet: the select on a.mappingReady, ctx.Done() and            *)
(* time.After(5 * time.Minute); one of the ready cases is taken            *)
StSelect(b) ==
    /\ At(b, "st", "select")
    /\ \/ /\ mappingReady
          /\ Goto(b, "st", "list", NoError, Nil)
       \/ /\ ctxDone
          /\ Goto(b, "st", "done", "context canceled", Nil)
       \/ /\ <<b, "st">> \in timers
          /\ Goto(b, "st", "done", "timeout waiting for gamedata mapping", Nil)
    /\ UNCHANGED <<restVars, classnameToID, idToClassname, mappingReady, mu, closes, ctxDone,
                   timers>>

(* LoadStorageSet: the listing, ExtractStorageKey for every object *)
StList(b) ==
    /\ At(b, "st", "list")
    /\ LET extracted == {ExtractStorageKey(obj, StoragePrefix, StorageExtension) : obj \in bucket}
       IN  Goto(b, "st", "done", NoError, {e.key : e \in {x \in extracted : x.ok}})
    /\ UNCHANGED <<restVars, classnameToID, idToClassname, mappingReady, mu, closes, ctxDone,
                   timers>>

(* the caller cancels the context of the BuildCache calls *)
Cancel ==
    /\ ~ctxDone
    /\ \E b \in BuildCalls : At(b, "main", "wait")
    /\ ctxDone' = TRUE
    /\ UNCHANGED <<restVars, classnameToID, idToClassname, mappingReady, gor, mu, closes,
                   timers>>

(* a select without the time.After case *)
TimerNever(b) == FALSE /\ UNCHANGED vars

(* five minutes after a LoadStorageSet call reached its select *)
TimerFires(b) ==
    /\ At(b, "st", "select")
    /\ <<b, "st">> \notin timers
    /\ timers' = timers \cup {<<b, "st">>}
    /\ UNCHANGED <<restVars, classnameToID, idToClassname, mappingReady, gor, mu, closes,
                   ctxDone>>

(* BuildCache after wg.Wait(): dbErr, gdErr, storageErr in this order, else *)
(* the record                                                               *)
BuildCacheReturn(b) ==
    /\ At(b, "main", "wait")
    /\ \A role \in {"gd", "db", "st"} : At(b, role, "done")
    /\ LET errs == SelectSeq(<<gor[<<b, "db">>].err, gor[<<b, "gd">>].err, gor[<<b, "st">>].err>>,
                             LAMBDA e : e # NoError)
       IN  IF errs # <<>> THEN Goto(b, "main", "returned", Head(errs), Nil)
           ELSE Goto(b, "main", "returned", NoError,
                     [DBIndex |-> gor[<<b, "db">>].val, GDIndex |-> gor[<<b, "gd">>].val,
                      StorageSet |-> gor[<<b, "st">>].val])
    /\ UNCHANGED <<restVars, classnameToID, idToClassname, mappingReady, mu, closes, ctxDone,
                   timers>>

Step(b) ==
    \/ BuildCacheStart(b)
    \/ GdFetch(b)
    \/ GdLock(b)
    \/ GdPopulate(b)
    \/ GdClose(b)
    \/ GdUnlock(b)
    \/ StSelect(b)
    \/ StList(b)
    \/ TimerFires(b)
    \/ BuildCacheReturn(b)

NextSignal ==
    \/ \E b \in BuildCalls : Step(b)
    \/ Cancel

SpecSignal == InitSignal /\ [][NextSignal]_vars

(* Every goroutine that can take a step takes it, and the timer of a       *)
(* waiting LoadStorageSet fires; the caller need not cancel.               *)
SpecSignalFair == SpecSignal /\ \A b \in BuildCalls : WF_vars(Step(b))

(* C35: a.mappingReady, once raised, stays raised; with it raised a        *)
(* LoadStorageSet call at its select can go on; and repeated or concurrent *)
(* LoadGamedataIndex calls on the adapter close the channel at most once.  *)
C35_SignalOneShot ==
    /\ [](/\ closes <= 1
          /\ \A b \in BuildCalls : ~At(b, "gd", "panic")
          /\ mappingReady => \A b \in BuildCalls : At(b, "st", "select") => ENABLED StSelect(b))
    /\ [][mappingReady => mappingReady']_vars

C35_Witness ==
    /\ mappingReady
    /\ closes = 1
    /\ \A b \in BuildCalls : At(b, "gd", "done") /\ gor[<<b, "gd">>].err = NoError
    /\ \A b \in BuildCalls : At(b, "st", "done") /\ gor[<<b, "st">>].err = NoError

(* C36: if LoadGamedataIndex fails before a.mappingReady is raised on a   *)
(* fresh adapter, LoadStorageSet extracts no key and ends with an error    *)
(* when the context is cancelled or the timeout fires; BuildCache always   *)
(* terminates, and returns an error and no record.                         *)
C36_FailedGamedataTerminates ==
    /\ [](\A b \in BuildCalls :
            (At(b, "st", "done") /\ ~mappingReady) =>
                /\ gor[<<b, "st">>].err \in {"context canceled",
                                             "timeout waiting for gamedata mapping"}
                /\ gor[<<b, "st">>].val = Nil)
    /\ [](\A b \in BuildCalls :
            (At(b, "main", "returned") /\ gor[<<b, "gd">>].err # NoError) =>
                /\ gor[<<b, "main">>].err # NoError
                /\ gor[<<b, "main">>].val = Nil)
    /\ \A b \in BuildCalls : At(b, "main", "wait") ~> At(b, "main", "returned")

C36_Witness ==
    /\ ~mappingReady
    /\ ~ctxDone
    /\ \E b \in BuildCalls :
        /\ At(b, "main", "returned")
        /\ gor[<<b, "main">>].err = "failed to get gamedata object"
        /\ gor[<<b, "st">>].err = "timeout waiting for gamedata mapping"

(* The workers of SyncDBBatch keep running: a step that can be taken is   *)
(* taken.                                                                  *)
SpecMutationsFair == SpecMutations /\ WF_vars(NextM)

KindOrder == <<"delete_db", "delete_gamedata", "delete_storage", "sync_db">>

KindOfCall(call) ==
    IF call.method \in {"DeleteDB", "DeleteDBBatch"} THEN 1
    ELSE IF call.method \in {"DeleteGamedata", "DeleteGamedataBatch"} THEN 2
    ELSE IF call.method \in {"DeleteStorage", "DeleteStorageBatch"} THEN 3
    ELSE 4

RECURSIVE KeysCalled(_, _)
KeysCalled(cs, n) ==
    IF cs = <<>> THEN <<>>
    ELSE (IF KindOfCall(Head(cs)) = n THEN Head(cs).keys ELSE <<>>) \o KeysCalled(Tail(cs), n)

InitInvalidate ==
    /\ InitCachedWorld
    /\ ttl = CacheTTL
    /\ now = 0
    /\ caches \in {[k \in {CacheKey} |-> Nil],
                   [k \in {CacheKey} |-> NewCache(dbIndex, gdIndex, storageSet, 0)]}
    /\ builds = 0
    /\ buildErrs = 0
    /\ loads = [n \in LoadNames |-> 0]
    /\ failedLoads = {}
    /\ cop = [c \in Callers |-> "GetOrBuildCache"]
    /\ cpc = [c \in Callers |-> "idle"]
    /\ clocal = [c \in Callers |-> [cache |-> Nil, err |-> NoError]]
    /\ cpart = [c \in Callers |-> {}]
    /\ sfCall = 0
    /\ sfJoined = [c \in Callers |-> 0]
    /\ sfDone = [c \in Callers |-> Nil]
    /\ cret = [c \in Callers |-> Nil]
    /\ GoIdle
    /\ invalidated = NotInvalidated
    /\ pc = "off"
    /\ opts = [DryRun |-> FALSE, DoPurge |-> FALSE, DoSync |-> FALSE, Confirmed |-> FALSE]
    /\ results = <<>>
    /\ plan = NoPlan
    /\ used = Nil
    /\ cmpCalls = {}
    /\ executed = 0
    /\ err = NoError
    /\ calls = <<>>
    /\ specAdapter = Nil
    /\ MutationIdle
    /\ EntryIdle
    /\ FurnitureIdle

(* caller c calls GetOrBuildCache *)
Begin(c) ==
    /\ cpc[c] = "idle"
    /\ cpc' = [cpc EXCEPT ![c] = "fast_read"]
    /\ invalidated' = IF invalidated.done THEN [invalidated EXCEPT !.after = @ \cup {c}]
                      ELSE invalidated
    /\ UNCHANGED <<goVars, mutVars, entryVars, furnVars, worldVars, cacheVars, pipeVars, cop,
                   clocal, cpart, sfCall, sfJoined, sfDone, cret>>

(* the builds that have started a load *)
BuildsBegun == {c \in Callers : cpart[c] # {} \/ cpc[c] \in {"store", "sf_return"}}

(* InvalidateCache: delete(globalCacheStore.caches, cacheKey) under the    *)
(* write lock                                                              *)
InvalidateCache ==
    /\ ~invalidated.done
    /\ caches' = [caches EXCEPT ![CacheKey] = Nil]
    /\ invalidated' = [done |-> TRUE,
                       stale |-> {0} \cup BuildsBegun
                                     \cup {clocal[c].cache.id : c \in {x \in Callers : clocal[x].cache # Nil}},
                       after |-> {}]
    /\ UNCHANGED <<goVars, mutVars, entryVars, furnVars, worldVars, ttl, now, builds, buildErrs,
                   loads, failedLoads, pipeVars, callerVars>>

NextInvalidate ==
    \/ Tick
    \/ InvalidateCache
    \/ \E c \in Callers :
        \/ Begin(c)
        \/ FastRead(c)
        \/ FastCheck(c)
        \/ SfDo(c)
        \/ SfRead(c)
        \/ SfCheck(c)
        \/ Load(c)
        \/ BuildDone(c)
        \/ Store(c)
        \/ SfReturn(c)
        \/ SfWait(c)

SpecInvalidate == InitInvalidate /\ [][NextInvalidate]_vars

(* C39: a GetOrBuildCache call made after InvalidateCache returned never   *)
(* returns a record whose loads started before the invalidation, also when *)
(* a rebuild for the cache key was in flight while InvalidateCache ran.    *)
C39_NoStaleAfterInvalidate ==
    \A c \in invalidated.after :
        (cpc[c] = "done" /\ cret[c].cache # Nil) => cret[c].cache.id \notin invalidated.stale

(***************************************************************************)
(* Concurrent DeleteGamedata and DeleteGamedataBatch calls on one adapter. *)
(* Each call is a goroutine: it takes a.mu, reads the catalog object,      *)
(* filters its own copy, writes the copy back and releases a.mu.           *)
(***************************************************************************)
NumDeleters == 2

Deleters == 1..NumDeleters

(* the catalog FurnitureData.json holds when the calls are made *)
DeleterCatalog ==
    [room |-> <<Described(Item(1, <<"a">>, <<"n">>, 1, FALSE)),
                Item(2, <<"b">>, <<"n">>, 1, FALSE),
                Item(3, <<"c">>, <<"n">>, 1, FALSE)>>,
     wall |-> <<Item(1, <<"a">>, <<"n">>, 1, FALSE), Item(4, <<"d">>, <<"n">>, 1, FALSE)>>]

(* the calls: a method and its key or keys *)
DeleterCalls ==
    [op : {"DeleteGamedata"}, keys : {<<<<"1">>>>, <<<<"2">>>>, <<<<"a">>>>}]
        \cup [op : {"DeleteGamedataBatch"},
              keys : {<<>>, <<<<"1">>>>, <<<<"2">>>>, <<<<"1">>, <<"2">>>>, <<<<"a">>, <<"2">>>>}]

InitDeleters ==
    /\ catalog = DeleterCatalog
    /\ bucket = {}
    /\ table = <<>>
    /\ profile = "arcturus"
    /\ NewAdapter
    /\ gor \in [Deleters -> [pc : {"idle"}, call : DeleterCalls, data : {Nil},
                             err : {NoError}, overlap : {{}}]]
    /\ mu = {}
    /\ closes = 0
    /\ ctxDone = FALSE
    /\ timers = {}
    /\ invalidated = NotInvalidated
    /\ MutationIdle
    /\ EntryIdle
    /\ fpc = "off"
    /\ buildNo = 0
    /\ gdLoaded = Nil
    /\ dbLoaded = Nil
    /\ stPos = "done"
    /\ listed = {}
    /\ keyOf = <<>>
    /\ early = {}
    /\ fcache = Nil
    /\ fopts = [DryRun |-> FALSE, DoPurge |-> FALSE, DoSync |-> FALSE, Confirmed |-> FALSE]
    /\ fplan = NoPlan
    /\ ferr = NoError
    /\ applied = Nil
    /\ dbIndex = <<>> /\ gdIndex = <<>> /\ storageSet = {} /\ mismatches = <<>>
    /\ initial = [db |-> <<>>, gd |-> <<>>, st |-> {}, mm |-> <<>>]
    /\ InitCache
    /\ ttl = 0
    /\ pc = "off"
    /\ opts = [DryRun |-> FALSE, DoPurge |-> FALSE, DoSync |-> FALSE, Confirmed |-> FALSE]
    /\ results = <<>>
    /\ plan = NoPlan
    /\ used = Nil
    /\ cmpCalls = {}
    /\ executed = 0
    /\ err = NoError
    /\ calls = <<>>
    /\ specAdapter = Nil
    /\ cpc = [c \in Callers |-> "off"]
    /\ cop = [c \in Callers |-> "none"]
    /\ clocal = [c \in Callers |-> Nil]
    /\ cpart = [c \in Callers |-> Nil]
    /\ sfCall = 0
    /\ sfJoined = {}
    /\ sfDone = [c \in Callers |-> Nil]
    /\ cret = [c \in Callers |-> Nil]

(* what the deleting goroutines leave alone *)
deleterRest ==
    <<invalidated, mutVars, entryVars, worldVars, cacheVars, pipeVars, callerVars, bucket,
      table, profile, classnameToID, idToClassname, mappingReady, fpc, buildNo, gdLoaded,
      dbLoaded, stPos, listed, keyOf, early, fcache, fopts, fplan, ferr, applied, closes,
      ctxDone, timers>>

(* the call is made: a.client is set; DeleteGamedataBatch returns nil for  *)
(* no keys before it takes the lock                                        *)
DeleteCall(d) ==
    /\ gor[d].pc = "idle"
    /\ gor' = [gor EXCEPT ![d].pc = IF /\ gor[d].call.op = "DeleteGamedataBatch"
                                       /\ Len(gor[d].call.keys) = 0
                                    THEN "returned" ELSE "lock"]
    /\ UNCHANGED <<deleterRest, catalog, mu>>

(* a.mu.Lock() returns without the mutex (the adapter with its lock removed) *)
DeleteLockFree(d) ==
    /\ gor[d].pc = "lock"
    /\ mu' = mu \cup {d}
    /\ gor' = [gor EXCEPT ![d].pc = "get",
                          ![d].overlap = {o \in Deleters \ {d} : gor[o].pc = "lock"}]
    /\ UNCHANGED <<deleterRest, catalog>>

(* DeleteGamedata, DeleteGamedataBatch: a.mu.Lock() *)
DeleteLock(d) ==
    /\ mu = {}
    /\ DeleteLockFree(d)

(* GetObject, ReadAll and Unmarshal, which may return an error; then       *)
(* DeleteGamedata converts its key with strconv.Atoi                       *)
DeleteGet(d) ==
    /\ gor[d].pc = "get"
    /\ \/ gor' = [gor EXCEPT ![d].pc = "unlock", ![d].err = "failed to get gamedata"]
       \/ /\ gor[d].call.op = "DeleteGamedata"
          /\ ~AtoiOK(gor[d].call.keys[1])
          /\ gor' = [gor EXCEPT ![d].pc = "unlock", ![d].data = catalog,
                                ![d].err = "invalid key"]
       \/ /\ gor[d].call.op = "DeleteGamedata" => AtoiOK(gor[d].call.keys[1])
          /\ gor' = [gor EXCEPT ![d].pc = "put", ![d].data = catalog]
    /\ UNCHANGED <<deleterRest, catalog, mu>>

(* the two filter loops over the copy that was read, MarshalIndent and     *)
(* PutObject, which may return an error                                    *)
DeletePut(d) ==
    /\ gor[d].pc = "put"
    /\ LET read == [catalog |-> gor[d].data]
           keys == gor[d].call.keys
           written == IF gor[d].call.op = "DeleteGamedata"
                      THEN DeleteGamedata(read, keys[1]).w
                      ELSE DeleteGamedataBatch(read, keys)
       IN  \/ /\ catalog' = written.catalog
              /\ gor' = [gor EXCEPT ![d].pc = "unlock"]
           \/ /\ catalog' = catalog
              /\ gor' = [gor EXCEPT ![d].pc = "unlock", ![d].err = "failed to write gamedata"]
    /\ UNCHANGED <<deleterRest, mu>>

(* the method returns; the deferred a.mu.Unlock() *)
DeleteUnlock(d) ==
    /\ gor[d].pc = "unlock"
    /\ mu' = mu \ {d}
    /\ gor' = [gor EXCEPT ![d].pc = "returned"]
    /\ UNCHANGED <<deleterRest, catalog>>

NextDeleters ==
    \E d \in Deleters :
        \/ DeleteCall(d)
        \/ DeleteLock(d)
        \/ DeleteGet(d)
        \/ DeletePut(d)
        \/ DeleteUnlock(d)

SpecDeleters == InitDeleters /\ [][NextDeleters]_vars

(* the IDs named by the keys of the calls in ds *)
PassedIDs(ds) == UNION {IdsOf(gor[d].call.keys) : d \in ds}

(* the IDs of the items the catalog holds *)
CatalogIDs(cat) ==
    {cat.room[i].ID : i \in 1..Len(cat.room)} \cup {cat.wall[i].ID : i \in 1..Len(cat.wall)}

====
